---- MODULE Spec2Model ----
(***************************************************************************)
(* Model of the SweetHome3D importer and exporter of the BIM workbench     *)
(* (src/Mod/BIM/importers: importSH3DHelper.py, exportSH3DHelper.py,       *)
(* SH3DCommons.py).                                                        *)
(*                                                                         *)
(* Under Spec, SpecWall, SpecSweep, SpecDoor and SpecCount one behaviour   *)
(* is one call of SH3DImporter.import_sh3d on one archive; under SpecMerge *)
(* the archive is imported again into the document the first import left;  *)
(* under SpecCommons, SpecArc, SpecBool and SpecAttribute a behaviour is   *)
(* one call of one function (of SH3DCommons, of the wall handler, of the   *)
(* property setters); under SpecExport it is one call of                   *)
(* SH3DExporter.export_sh3d.                                               *)
(* The archive (file), the preferences (prefs), the objects the document   *)
(* held before the import (the initial objs) and the answers of the        *)
(* geometry kernel to the sweeps (kernel) are inputs, drawn in Init.       *)
(* Wall elements are part of file because walls read each other's          *)
(* attributes out of order; the attributes of every other element are read *)
(* when the element is handed to its handler and are drawn there.          *)
(*                                                                         *)
(* Lengths are integers.  The source computes with floats; every length    *)
(* drawn here is such that the divisions by FACTOR are exact.              *)
(***************************************************************************)
EXTENDS Integers, Sequences, FiniteSets, TLC

(* ------------------------------ bounds --------------------------------- *)
MaxLevels == 2
MaxPerKind == 1
MaxFileLen == 4
MaxWalls == 3
MaxImports == 2
MaxNumerator == 12
MaxExportLen == 2

(* ------------------------- program constants --------------------------- *)
FACTOR == 10
DEFAULT_WALL_WIDTH == 100
FIX_INVALID_SWEEP == TRUE
max_adjustment == 45
DefaultFloorHeight == 2500
ndigits == 1

(* ----------------------------- vocabulary ------------------------------ *)
\* Python's None, for ids, attributes and object references.
None == <<"None", 0>>
NoObj == 0
\* An object without shType property, a lookup without sh_type.
NoType == ""

Id(name, n) == <<name, n>>
LevelId(k) == Id("level", k)
WallId(k) == Id("wall", k)
UnknownLevel == Id("level", 99)
UnknownWall == Id("wall", 99)
HomeName == Id("home", 0)

\* A plausible slip: the openings imported before the walls.
Passes_OpeningsFirst ==
    <<"level", "room", "doorOrWindow", "wall", "pieceOfFurniture",
      "furnitureGroup", "light", "observerCamera", "camera">>

\* The order of the passes of import_sh3d.
Passes == <<"level", "room", "wall", "doorOrWindow", "pieceOfFurniture",
            "furnitureGroup", "light", "observerCamera", "camera">>

PassNo(tag) == CHOOSE n \in 1..Len(Passes) : Passes[n] = tag

VARIABLES
    pc,                    \* position in import_sh3d: "start", a pass, "done", "failed"
    idx,                   \* 1-based position in the elements of the pass
    file,                  \* the archive
    prefs,                 \* self.preferences
    kernel,                \* the geometry kernel's answers to the sweep of each wall
    objs,                  \* App.ActiveDocument.Objects, a handle is an index
    fc_objects,            \* self.fc_objects: id -> handle
    floors,                \* self.floors: id -> handle
    default_floor,         \* self.default_floor
    walls,                 \* self.walls
    project, site, building,
    total_object_count,
    current_object_count,
    log,                   \* the elements handed to a handler, in order, with the outcome
    wallRes,               \* per <wall>: what WallHandler.process computed for it
    earlier,               \* the documents the earlier imports of the archive left
    call,                  \* a call of a function of SH3DCommons: argument and result
    doc,                   \* the document export_sh3d exports from, a handle is an index
    export_list,           \* the objects handed to export_sh3d
    xpc,                   \* position in export_sh3d: "idle", "start", "prepare", a step,
                           \* "archive", "done", "failed"
    xidx,                  \* 1-based position in export_list
    exporter               \* the fields of the SH3DExporter

vars == <<pc, idx, file, prefs, kernel, objs, fc_objects, floors, default_floor,
          walls, project, site, building, total_object_count,
          current_object_count, log, wallRes, earlier, call,
          doc, export_list, xpc, xidx, exporter>>

\* The variables of an export.
exporting == <<doc, export_list, xpc, xidx, exporter>>

\* What one call of import_sh3d never changes.
inputs == <<file, prefs, kernel, earlier, call, exporting>>

\* No function of SH3DCommons is under call.
NoCall == [fn |-> "none", arg |-> 0, res |-> 0, done |-> FALSE]

\* SH3DExporter.__init__; home stands for the children of the <home> element
\* and zip for the names of the entries of the archive.
NewExporter ==
    [site |-> 0, levels |-> <<>>, rooms |-> <<>>, walls |-> <<>>,
     walls_by_start |-> <<>>, walls_by_end |-> <<>>, plates |-> <<>>,
     door_or_windows |-> <<>>, furnitures |-> <<>>, models |-> <<>>,
     home |-> <<>>, zip |-> <<>>]

\* No export is running.
NoExport ==
    /\ doc = <<>>
    /\ export_list = <<>>
    /\ xpc = "idle"
    /\ xidx = 0
    /\ exporter = NewExporter

(* ------------------------ unit transforms ------------------------------ *)
dim_sh2fc(dimension) == dimension * FACTOR

dim_fc2sh(dimension) == dimension \div FACTOR

coord_sh2fc(v) == [x |-> v.x * FACTOR, y |-> (0 - v.y) * FACTOR, z |-> v.z * FACTOR]

ang_sh2fc(angle) == 0 - angle

(* --------------------------- the document ------------------------------ *)
\* Shape.BoundBox of an object without shape or with a null shape.
NoBox == [xmin |-> 1, xmax |-> 0, ymin |-> 1, ymax |-> 0, zmin |-> 1, zmax |-> 0]

Obj(kind, id, shType) ==
    [kind |-> kind, id |-> id, shType |-> shType, parent |-> NoObj,
     base |-> NoObj, z |-> 0, height |-> 0, width |-> 0, valid |-> TRUE, box |-> NoBox]

\* doc.addObject / Arch.make...: the new object's handle is Len(os) + 1.
AddObj(os, o) == Append(os, o)

New(os) == Len(os) + 1

\* container.addObject(child)
Attach(os, child, container) == [os EXCEPT ![child].parent = container]

Put(f, k, v) == [x \in DOMAIN f \cup {k} |-> IF x = k THEN v ELSE f[x]]

(* ----------------------------- the archive ----------------------------- *)
\* A numeric attribute the element does not carry.
Absent == 0 - 1

\* The tags whose elements are children of <home> and counted in file.count.
CountedTags == {"level", "room", "doorOrWindow", "pieceOfFurniture", "light",
                "observerCamera", "camera"}

\* The <level> elements of the archive, by position.
LevelElm(k) ==
    [id |-> LevelId(k), elevation |-> 300 * (k - 1), height |-> 250 + 50 * (k - 1),
     floorThickness |-> 12]

\* The geometry of the <wall> elements, by position.  Walls 1, 2 and 3 meet
\* at (500, 0); wall 4 starts where wall 1 starts.  Even walls carry no
\* height attribute.
WallGeom(k) ==
    CASE k = 1 -> [xStart |-> 0, yStart |-> 0, xEnd |-> 500, yEnd |-> 0,
                   thickness |-> 10, height |-> 250, heightAtEnd |-> Absent]
      [] k = 2 -> [xStart |-> 500, yStart |-> 0, xEnd |-> 500, yEnd |-> 300,
                   thickness |-> 20, height |-> Absent, heightAtEnd |-> Absent]
      [] k = 3 -> [xStart |-> 500, yStart |-> 0, xEnd |-> 900, yEnd |-> 0,
                   thickness |-> 30, height |-> 260, heightAtEnd |-> 200]
      [] k = 4 -> [xStart |-> 0, yStart |-> 0, xEnd |-> 0, yEnd |-> 300,
                   thickness |-> 10, height |-> Absent, heightAtEnd |-> Absent]
      [] OTHER -> [xStart |-> 0, yStart |-> 100 * k, xEnd |-> 500, yEnd |-> 100 * k,
                   thickness |-> 10, height |-> 250, heightAtEnd |-> Absent]

WallElm(k, level, atStart, atEnd) ==
    [id |-> WallId(k), level |-> level, wallAtStart |-> atStart, wallAtEnd |-> atEnd,
     arcExtent |-> 0] @@ WallGeom(k)

\* home.findall(tag)
TagCount(tag) ==
    CASE tag = "wall" -> Len(file.walls)
      [] tag = "furnitureGroup" -> Len(file.groups)
      [] OTHER -> file.count[tag]

RECURSIVE SumSeq(_)
SumSeq(s) == IF s = <<>> THEN 0 ELSE Head(s) + SumSeq(Tail(s))

\* The <pieceOfFurniture> children of the furniture groups, group after group:
\* <<g, i>> is the piece enumerate() numbers i (from 0) in group g.
RECURSIVE GroupPieces(_, _)
GroupPieces(groups, g) ==
    IF g > Len(groups) THEN <<>>
    ELSE [j \in 1..groups[g] |-> <<g, j - 1>>] \o GroupPieces(groups, g + 1)

\* The number of elements a pass hands to its handler.
NumElems(tag) ==
    IF tag = "furnitureGroup" THEN SumSeq(file.groups) ELSE TagCount(tag)

\* The ids a level attribute can carry in this archive.
LevelRefs == {None, UnknownLevel} \cup {LevelId(k) : k \in 1..file.count["level"]}

(* ---------------------------- SH3DImporter ----------------------------- *)
\* self.handlers.keys(), as built by __init__
HandlerTags ==
    {"level", "room", "wall"}
    \cup (IF prefs.IMPORT_DOORS_AND_WINDOWS THEN {"doorOrWindow"} ELSE {})
    \cup (IF prefs.IMPORT_FURNITURES THEN {"pieceOfFurniture", "furnitureGroup"} ELSE {})
    \cup (IF prefs.IMPORT_LIGHTS THEN {"light"} ELSE {})
    \cup (IF prefs.IMPORT_CAMERAS THEN {"observerCamera", "camera"} ELSE {})

RECURSIVE SumTags(_)
SumTags(tags) ==
    IF tags = {} THEN 0
    ELSE LET t == CHOOSE t \in tags : TRUE IN TagCount(t) + SumTags(tags \ {t})

_get_object_count == SumTags(HandlerTags)

\* The number of elements a count of the children of <home> stands for.
RECURSIVE SumCount(_, _)
SumCount(count, tags) ==
    IF tags = {} THEN 0
    ELSE LET t == CHOOSE t \in tags : TRUE IN count[t] + SumCount(count, tags \ {t})

SumTagsOf(count) == SumCount(count, CountedTags)

\* The passes import_sh3d runs for this archive under these preferences.
PassRuns(tag) ==
    CASE tag = "level" -> file.count["level"] > 0
      [] tag \in {"room", "wall"} -> TRUE
      [] tag = "doorOrWindow" -> prefs.IMPORT_DOORS_AND_WINDOWS
      [] tag \in {"pieceOfFurniture", "furnitureGroup"} -> prefs.IMPORT_FURNITURES
      [] tag = "light" -> prefs.IMPORT_LIGHTS
      [] OTHER -> prefs.IMPORT_CAMERAS

\* The pass import_sh3d runs after pass number n, "done" after the last one.
NextPassAfter(n) ==
    LET later == {m \in (n + 1)..Len(Passes) : PassRuns(Passes[m])}
    IN IF later = {} THEN "done"
       ELSE Passes[CHOOSE m \in later : \A m2 \in later : m <= m2]

\* An error raised by a lookup.
Raised == 0 - 1

get_fc_object(os, fco, id, sh_type) ==
    IF prefs.MERGE /\ id \in DOMAIN fco
    THEN IF sh_type # NoType /\ os[fco[id]].shType # sh_type THEN Raised ELSE fco[id]
    ELSE NoObj

get_floor(level_id) ==
    IF default_floor # NoObj \/ level_id = None THEN default_floor
    ELSE IF level_id \in DOMAIN floors THEN floors[level_id] ELSE NoObj

\* floor.newObject("App::DocumentObjectGroup", ...) for "Furnitures" and "Baseboards"
NewFloorGroups(os, floor) ==
    IF prefs.IMPORT_FURNITURES
    THEN LET os1 == AddObj(os, [Obj("Furnitures", None, NoType) EXCEPT !.parent = floor])
         IN AddObj(os1, [Obj("Baseboards", None, NoType) EXCEPT !.parent = floor])
    ELSE os

\* The objects of the document that carry an id, as the MERGE loop of
\* import_sh3d records them: a later object overwrites an earlier one.
MergePreload(os) ==
    LET ids == {os[h].id : h \in 1..Len(os)} \ {None}
    IN [i \in ids |-> CHOOSE h \in 1..Len(os) :
            os[h].id = i /\ \A h2 \in 1..Len(os) : os[h2].id = i => h2 <= h]

EmptyMap == [i \in {} |-> NoObj]

_create_groups(os) ==
    LET os1 == IF prefs.IMPORT_LIGHTS /\ ~\E h \in 1..Len(os) : os[h].kind = "Lights"
               THEN AddObj(os, Obj("Lights", None, NoType)) ELSE os
    IN IF prefs.IMPORT_CAMERAS /\ ~\E h \in 1..Len(os1) : os1[h].kind = "Cameras"
       THEN AddObj(os1, Obj("Cameras", None, NoType)) ELSE os1

_create_default_floor(os) ==
    LET os1 == AddObj(os, [Obj("Floor", Id("Level", 0), "level") EXCEPT
                             !.z = 0, !.height = DefaultFloorHeight])
    IN NewFloorGroups(os1, New(os))

\* An object found by a merge lookup, or a new one: the document and the handle.
FoundOrNew(os, found, o) ==
    IF found = NoObj THEN [objs |-> AddObj(os, o), h |-> New(os)]
    ELSE [objs |-> os, h |-> found]

\* The same for an object made from a base object (a wire, a sweep).
FoundOrNewOnBase(os, found, baseKind, kind) ==
    IF found = NoObj
    THEN [objs |-> AddObj(AddObj(os, Obj(baseKind, None, NoType)),
                          [Obj(kind, None, NoType) EXCEPT !.base = New(os)]),
          h |-> New(os) + 1]
    ELSE [objs |-> os, h |-> found]

\* The shType and id properties every handler sets.
Tag(os, h, shType, id) == [os EXCEPT ![h].shType = shType, ![h].id = id]

\* _setup_project: the object registered under id, or a new one.
EnsureObj(os, fco, kind, id, shType) ==
    IF id \in DOMAIN fco THEN [objs |-> os, h |-> fco[id]]
    ELSE [objs |-> AddObj(os, Obj(kind, id, shType)), h |-> New(os)]

\* A plausible slip: the default floor is made whatever the archive declares.
DefaultFloor_Always(os, fco) ==
    IF Id("Level", 0) \in DOMAIN fco THEN [objs |-> os, h |-> fco[Id("Level", 0)]]
    ELSE [objs |-> _create_default_floor(os), h |-> New(os)]

\* The default floor, made when the archive declares no level.
DefaultFloor(os, fco) ==
    IF file.count["level"] # 0 THEN [objs |-> os, h |-> NoObj]
    ELSE IF Id("Level", 0) \in DOMAIN fco THEN [objs |-> os, h |-> fco[Id("Level", 0)]]
    ELSE [objs |-> _create_default_floor(os), h |-> New(os)]

\* A plausible slip: the archive is read without the check for Home.xml.
HomeMissing_Unchecked == FALSE

\* "Home.xml" not in entries
HomeMissing == ~file.hasHome

\* import_sh3d up to the first pass.
Open ==
    /\ pc = "start"
    /\ IF HomeMissing
       THEN /\ pc' = "failed"
            /\ UNCHANGED <<idx, objs, fc_objects, floors, default_floor, walls, project,
                           site, building, total_object_count>>
       ELSE \E fco \in {IF prefs.MERGE THEN MergePreload(objs) ELSE EmptyMap} :
            \E P \in {EnsureObj(_create_groups(objs), fco, "Project", Id("Project", 0), NoType)} :
            \E S \in {EnsureObj(P.objs, fco, "Site", Id("Site", 0), NoType)} :
            \E B \in {EnsureObj(S.objs, fco, "Building", HomeName, "building")} :
            \E F \in {DefaultFloor(Attach(Attach(B.objs, S.h, P.h), B.h, S.h), fco)} :
               /\ total_object_count' = _get_object_count
               /\ fc_objects' = fco
               /\ project' = P.h
               /\ site' = S.h
               /\ building' = B.h
               /\ default_floor' = F.h
               \* add_floor
               /\ floors' = IF F.h # NoObj THEN Put(floors, F.objs[F.h].id, F.h) ELSE floors
               /\ objs' = IF F.h # NoObj THEN Attach(F.objs, F.h, B.h) ELSE F.objs
               /\ pc' = NextPassAfter(0)
               /\ idx' = 1
               /\ UNCHANGED walls
    /\ UNCHANGED <<inputs, current_object_count, log, wallRes>>

\* The end of one _import_elements call and the start of the next one.
NextPass ==
    /\ pc \in {Passes[n] : n \in 1..Len(Passes)}
    /\ idx > NumElems(pc)
    /\ pc' = NextPassAfter(PassNo(pc))
    /\ idx' = 1
    /\ UNCHANGED <<inputs, objs, fc_objects, floors, default_floor, walls, project, site,
                   building, total_object_count, current_object_count, log, wallRes>>

\* A plausible slip: the error of a handler is not caught and ends the import.
Handed_Uncaught(tag, i, ok) ==
    /\ log' = Append(log, [tag |-> tag, i |-> i, ok |-> ok])
    /\ current_object_count' = IF ok THEN current_object_count + 1 ELSE current_object_count
    /\ idx' = idx + 1
    /\ pc' = IF ok THEN pc ELSE "failed"
    /\ UNCHANGED <<inputs, project, site, building, total_object_count>>

\* _process, the wrapper of _import_elements around one handler call: the
\* error of the handler is caught, the element counted.
Handed(tag, i, ok) ==
    /\ log' = Append(log, [tag |-> tag, i |-> i, ok |-> ok])
    /\ current_object_count' = current_object_count + 1
    /\ idx' = idx + 1
    /\ UNCHANGED <<pc, inputs, project, site, building, total_object_count>>

\* The placement, height and properties LevelHandler.process sets.
SetLevel(os, floor, elm) ==
    [os EXCEPT ![floor].z = dim_sh2fc(elm.elevation),
               ![floor].height = dim_sh2fc(elm.height),
               ![floor].shType = "level",
               ![floor].id = elm.id]

\* LevelHandler.process on the idx-th <level>; bad: a required attribute
\* (elevation, height, floorThickness) is missing or no number.
ProcessLevel ==
    /\ pc = "level"
    /\ idx <= NumElems("level")
    /\ \E bad \in BOOLEAN :
       \E found \in {get_fc_object(objs, fc_objects, LevelElm(idx).id, "level")} :
          IF found = Raised
          THEN /\ Handed("level", idx - 1, FALSE)
               /\ UNCHANGED <<objs, floors>>
          ELSE \E F \in {FoundOrNew(objs, found, Obj("Floor", None, NoType))} :
               IF bad
               THEN /\ Handed("level", idx - 1, FALSE)
                    /\ objs' = F.objs
                    /\ UNCHANGED floors
               ELSE /\ Handed("level", idx - 1, TRUE)
                    \* add_floor
                    /\ floors' = Put(floors, LevelElm(idx).id, F.h)
                    /\ objs' = Attach(NewFloorGroups(SetLevel(F.objs, F.h, LevelElm(idx)),
                                                     F.h), F.h, building)
    /\ UNCHANGED <<fc_objects, default_floor, walls, wallRes>>

\* RoomHandler.process on the idx-th <room>; bad: a point without x or y.
ProcessRoom ==
    /\ pc = "room"
    /\ idx <= NumElems("room")
    /\ \E level_id \in LevelRefs, bad \in BOOLEAN :
       \E floor \in {get_floor(level_id)},
          found \in {get_fc_object(objs, fc_objects, Id("room", idx - 1), "room")} :
          IF floor = NoObj \/ bad \/ found = Raised
          THEN /\ Handed("room", idx - 1, FALSE)
               /\ UNCHANGED objs
          ELSE \E R \in {FoundOrNewOnBase(objs, found, "Wire", "Slab")} :
               /\ Handed("room", idx - 1, TRUE)
               /\ objs' = Attach(Tag(R.objs, R.h, "room", Id("room", idx - 1)), R.h, floor)
    /\ UNCHANGED <<fc_objects, floors, default_floor, walls, wallRes>>

(* ----------------------------- WallHandler ----------------------------- *)
Vec(x, y, z) == [x |-> x, y |-> y, z |-> z]

ORIGIN == Vec(0, 0, 0)

Abs(n) == IF n < 0 THEN 0 - n ELSE n

Max(a, b) == IF a >= b THEN a ELSE b

NoDetails ==
    [start |-> ORIGIN, end |-> ORIGIN, thickness |-> Absent, height_start |-> Absent,
     height_end |-> Absent, arc_extent |-> 0]

NoSection ==
    [joined |-> FALSE, p1 |-> ORIGIN, p2 |-> ORIGIN, height |-> Absent,
     thickness |-> Absent, z_rotation |-> 0]

\* No element (Python's None for an xml element), and the position of a wall
\* element otherwise.
NoElm == 0

\* parent.find("./wall[@id='...']"): the first <wall> with that id.
FindWall(id) ==
    IF \E k \in 1..Len(file.walls) : file.walls[k].id = id
    THEN CHOOSE k \in 1..Len(file.walls) :
            file.walls[k].id = id /\ \A k2 \in 1..(k - 1) : file.walls[k2].id # id
    ELSE NoElm

\* A sibling the spatial index would give instead: the first other wall with
\* an endpoint at the endpoint `attr` names.
CoincidentWall(wall, attr) ==
    LET me == file.walls[wall]
        px == IF attr = "wallAtStart" THEN me.xStart ELSE me.xEnd
        py == IF attr = "wallAtStart" THEN me.yStart ELSE me.yEnd
        touches(k) == \/ file.walls[k].xStart = px /\ file.walls[k].yStart = py
                      \/ file.walls[k].xEnd = px /\ file.walls[k].yEnd = py
        near == {k \in 1..Len(file.walls) : k # wall /\ touches(k)}
    IN IF near = {} THEN NoElm ELSE CHOOSE k \in near : \A k2 \in near : k <= k2

_get_sibling_wall_BySpace(wall, sibling_attribute_name) ==
    IF file.walls[wall][sibling_attribute_name] = None THEN NoElm
    ELSE CoincidentWall(wall, sibling_attribute_name)

\* The position of the sibling element, NoElm when none is declared, Raised
\* (ValueError) when the declared id is the id of no <wall>.
_get_sibling_wall(wall, sibling_attribute_name) ==
    LET sibling_wall_id == file.walls[wall][sibling_attribute_name]
    IN IF sibling_wall_id = None THEN NoElm
       ELSE IF FindWall(sibling_wall_id) = NoElm THEN Raised
       ELSE FindWall(sibling_wall_id)

_get_wall_details(os, floor, elm) ==
    IF elm = NoElm THEN NoDetails
    ELSE LET e == file.walls[elm]
             z == dim_fc2sh(os[floor].z)
             height_start == dim_sh2fc(IF e.height = Absent
                                       THEN dim_fc2sh(os[floor].height) ELSE e.height)
             height_end == dim_sh2fc(IF e.heightAtEnd = Absent
                                     THEN dim_fc2sh(height_start) ELSE e.heightAtEnd)
         IN [start |-> coord_sh2fc(Vec(e.xStart, e.yStart, z)),
             end |-> coord_sh2fc(Vec(e.xEnd, e.yEnd, z)),
             thickness |-> dim_sh2fc(e.thickness),
             height_start |-> height_start,
             height_end |-> height_end,
             arc_extent |-> ang_sh2fc(e.arcExtent)]

\* DraftVecUtils.angle(u, X_NORM) in degrees, for the axis-parallel
\* directions of the walls drawn here.
AngleToX(u) ==
    CASE u.y = 0 /\ u.x >= 0 -> 0
      [] u.y = 0 /\ u.x < 0 -> 180
      [] u.y > 0 -> 0 - 90
      [] OTHER -> 90

\* _get_normal_angles of a straight wall: the same angle at both ends.
_get_normal_angles(wall_details) ==
    LET d == Vec(wall_details.end.x - wall_details.start.x,
                 wall_details.end.y - wall_details.start.y, 0)
    IN 90 - AngleToX(d)

\* An edge of the plan, from a to b.
Edge(a, b) == [a |-> a, b |-> b]

\* _get_sides: the centerline moved by half the thickness to the left and to
\* the right; normal = (end - start) x Z, normalized (the length of an
\* axis-parallel vector is |x| + |y|).
_get_sides(start, end, thickness) ==
    LET dx == end.x - start.x
        dy == end.y - start.y
        len == Abs(dx) + Abs(dy)
        nx == dy \div len
        ny == (0 - dx) \div len
        off(p, sign) == Vec(p.x + sign * nx * (thickness \div 2),
                            p.y + sign * ny * (thickness \div 2), p.z)
    IN [lside |-> Edge(off(start, 0 - 1), off(end, 0 - 1)),
        rside |-> Edge(off(start, 1), off(end, 1))]

Sign(n) == IF n > 0 THEN 1 ELSE IF n < 0 THEN 0 - 1 ELSE 0

\* DraftGeomUtils.findIntersection(e1, e2, True, True): the point where the
\* two infinite lines cross, as a sequence; empty for parallel lines.  The
\* edges are axis-parallel, so their directions are taken as unit vectors.
findIntersection(e1, e2) ==
    LET d1x == Sign(e1.b.x - e1.a.x)
        d1y == Sign(e1.b.y - e1.a.y)
        d2x == Sign(e2.b.x - e2.a.x)
        d2y == Sign(e2.b.y - e2.a.y)
        den == d1x * d2y - d1y * d2x
        num == (e2.a.x - e1.a.x) * d2y - (e2.a.y - e1.a.y) * d2x
    IN IF den = 0 THEN <<>>
       ELSE <<Vec(e1.a.x + (d1x * num) \div den,
                  e1.a.y + (d1y * num) \div den, e1.a.z)>>

_get_intersection_edge(lside, rside, sibling_lside, sibling_rside) ==
    LET lpoints == findIntersection(lside, sibling_lside)
        left == IF Len(lpoints) > 0 THEN lpoints[1] ELSE lside.a
        rpoints == findIntersection(rside, sibling_rside)
        right == IF Len(rpoints) > 0 THEN rpoints[1] ELSE rside.a
    IN Edge(left, right)

_get_section(wall_details, at_start, sibling_details) ==
    LET height == IF at_start THEN wall_details.height_start ELSE wall_details.height_end
    IN IF prefs.JOIN_ARCH_WALL /\ sibling_details # NoDetails
       THEN LET sides == _get_sides(wall_details.start, wall_details.end,
                                    wall_details.thickness)
                s_sides == _get_sides(sibling_details.start, sibling_details.end,
                                      sibling_details.thickness)
                intersection == _get_intersection_edge(sides.lside, sides.rside,
                                                       s_sides.lside, s_sides.rside)
            IN [joined |-> TRUE, p1 |-> intersection.a, p2 |-> intersection.b,
                height |-> height, thickness |-> wall_details.thickness, z_rotation |-> 0]
       ELSE LET center == IF at_start THEN wall_details.start ELSE wall_details.end
            IN [joined |-> FALSE, p1 |-> center, p2 |-> center, height |-> height,
                thickness |-> wall_details.thickness,
                z_rotation |-> _get_normal_angles(wall_details)]

\* sweep.Shape after the end section was rotated `adjustment` times, as the
\* kernel answers for the wall at position `wall`: "valid", "invalid" or "null".
SweepShape(wall, adjustment) ==
    IF adjustment >= kernel[wall].firstValid THEN "valid" ELSE kernel[wall].bad

\* sweep.Shape.isNull() or not sweep.Shape.isValid()
SweepIsBad(wall, adjustment) == SweepShape(wall, adjustment) # "valid"

\* The condition of the while loop of _create_wall.
KeepRotating(wall, adjustment) ==
    SweepIsBad(wall, adjustment) /\ adjustment <= max_adjustment

\* The while loop of _create_wall: the value of `adjustment` when it ends,
\* which is the number of times Draft.rotate was applied to the end section.
RECURSIVE RotateEndSection(_, _)
RotateEndSection(wall, adjustment) ==
    IF KeepRotating(wall, adjustment)
    THEN RotateEndSection(wall, adjustment + 1)
    ELSE adjustment

\* The rotations _create_wall applies to the end section of a wall.
Rotations(wall) ==
    IF FIX_INVALID_SWEEP /\ SweepIsBad(wall, 0) THEN RotateEndSection(wall, 0) ELSE 0

\* assert sweep.Shape.isNull() or sweep.Shape.isValid()
SweepAssertion(shape) == shape = "null" \/ shape = "valid"

\* The loop of _create_wall on the sweep of a wall: the rotations applied
\* and the shape of the sweep when it ends.
Swept(wall) ==
    [rotations |-> Rotations(wall), shape |-> SweepShape(wall, Rotations(wall))]

\* Whether _create_wall ends by its assertion failing.
SweepRaises(wall, shape) ==
    FIX_INVALID_SWEEP /\ SweepIsBad(wall, 0) /\ ~SweepAssertion(shape)

\* The objects _create_wall adds to the document: the two sections, the
\* spine and the sweep, and the wall made from the sweep (Arch.makeWall, with
\* the host's default wall width) unless the assertion failed.
WallObjects(os, shape, raised) ==
    LET os1 == AddObj(AddObj(AddObj(AddObj(os,
                   Obj("Wire", None, NoType)), Obj("Wire", None, NoType)),
                   Obj("Line", None, NoType)),
                   [Obj("Sweep", None, NoType) EXCEPT !.valid = (shape = "valid")])
    IN IF raised THEN os1
       ELSE AddObj(os1, [Obj("Wall", None, NoType) EXCEPT
                           !.base = Len(os1), !.valid = (shape = "valid"), !.width = 200])

CreateWallFrom(os, elm, wall_details, prev_wall_details, next_wall_details, sweep) ==
    [raised |-> SweepRaises(elm, sweep.shape),
     objs |-> WallObjects(os, sweep.shape, SweepRaises(elm, sweep.shape)),
     wall |-> IF SweepRaises(elm, sweep.shape) THEN NoObj ELSE Len(os) + 5,
     details |-> wall_details, prev |-> prev_wall_details, next |-> next_wall_details,
     section_start |-> _get_section(wall_details, TRUE, prev_wall_details),
     section_end |-> _get_section(wall_details, FALSE, next_wall_details),
     rotations |-> sweep.rotations, shape |-> sweep.shape]

_create_wall(os, floor, prev, next, elm) ==
    CreateWallFrom(os, elm, _get_wall_details(os, floor, elm),
                   _get_wall_details(os, floor, prev),
                   _get_wall_details(os, floor, next), Swept(elm))

Min(a, b) == IF a <= b THEN a ELSE b

\* wall.Shape.BoundBox of the wall swept along the centerline of the details.
BoxOfSides(sides, zmin, zmax) ==
    [xmin |-> Min(Min(sides.lside.a.x, sides.lside.b.x), Min(sides.rside.a.x, sides.rside.b.x)),
     xmax |-> Max(Max(sides.lside.a.x, sides.lside.b.x), Max(sides.rside.a.x, sides.rside.b.x)),
     ymin |-> Min(Min(sides.lside.a.y, sides.lside.b.y), Min(sides.rside.a.y, sides.rside.b.y)),
     ymax |-> Max(Max(sides.lside.a.y, sides.lside.b.y), Max(sides.rside.a.y, sides.rside.b.y)),
     zmin |-> zmin, zmax |-> zmax]

WallBox(d) ==
    BoxOfSides(_get_sides(d.start, d.end, d.thickness), d.start.z,
               d.start.z + Max(d.height_start, d.height_end))

\* floor.getObject(floor.<kind>GroupName), NoObj when the floor has none.
FloorGroup(os, floor, kind) ==
    LET gs == {h \in 1..Len(os) : os[h].kind = kind /\ os[h].parent = floor}
    IN IF gs = {} THEN NoObj ELSE CHOOSE h \in gs : \A h2 \in gs : h2 <= h

\* The group is made when the floor has none.
EnsureGroup(os, floor, kind) ==
    IF FloorGroup(os, floor, kind) = NoObj
    THEN AddObj(os, [Obj(kind, None, NoType) EXCEPT !.parent = floor])
    ELSE os

AttachToGroup(os, h, floor, kind) == Attach(os, h, FloorGroup(os, floor, kind))

PendingRes ==
    [status |-> "pending", wall |-> NoObj, floor |-> NoObj, details |-> NoDetails,
     prev |-> NoDetails, next |-> NoDetails, section_start |-> NoSection,
     section_end |-> NoSection, rotations |-> 0, shape |-> "none"]

\* What WallHandler.process has in hand for a wall found by the merge lookup.
Merged(os, found) ==
    [raised |-> FALSE, objs |-> os, wall |-> found, details |-> NoDetails,
     prev |-> NoDetails, next |-> NoDetails, section_start |-> NoSection,
     section_end |-> NoSection, rotations |-> 0, shape |-> "none"]

ResOf(status, floor, made) ==
    [status |-> status, wall |-> made.wall, floor |-> floor, details |-> made.details,
     prev |-> made.prev, next |-> made.next, section_start |-> made.section_start,
     section_end |-> made.section_end, rotations |-> made.rotations,
     shape |-> made.shape]

\* The values of the `attribute` attribute of a <baseboard> child; "none":
\* the wall has no baseboard.
BaseboardSides == {"none", "leftSideBaseboard", "invalid"}

BaseboardFrom(os, floor, side, baseboard_id, found, R) ==
    IF side = "invalid" \/ found = Raised
    THEN [raised |-> TRUE, objs |-> os]
    ELSE [raised |-> FALSE,
          objs |-> AttachToGroup(
                     EnsureGroup(Tag(R.objs, R.h, "baseboard", baseboard_id),
                                 floor, "Baseboards"),
                     R.h, floor, "Baseboards")]

\* _import_baseboard: the rectangle and its extrusion, put in the Baseboards
\* group of the floor.  A wall with a null shape has no vertex to start from.
_import_baseboard(os, floor, wall, side) ==
    IF os[wall].box = NoBox THEN [raised |-> TRUE, objs |-> os]
    ELSE BaseboardFrom(os, floor, side, Id(side, os[wall].id[2]),
        get_fc_object(os, fc_objects, Id(side, os[wall].id[2]), "baseboard"),
        FoundOrNewOnBase(os,
            get_fc_object(os, fc_objects, Id(side, os[wall].id[2]), "baseboard"),
            "Wire", "Baseboard"))

\* The wall with its properties, its shape's bounding box, put on its floor.
WallOnFloor(made, floor, id, created) ==
    Attach([Tag(made.objs, made.wall, "wall", id) EXCEPT ![made.wall].box =
               IF ~created THEN @
               ELSE IF made.shape = "null" THEN NoBox ELSE WallBox(made.details)],
           made.wall, floor)

\* WallHandler.process on the idx-th <wall>.
ProcessWall ==
    /\ pc = "wall"
    /\ idx <= NumElems("wall")
    /\ \E side \in (IF prefs.IMPORT_FURNITURES THEN BaseboardSides ELSE {"none"}) :
       \E floor \in {get_floor(file.walls[idx].level)},
          found \in {get_fc_object(objs, fc_objects, file.walls[idx].id, "wall")},
          prev \in {_get_sibling_wall(idx, "wallAtStart")},
          next \in {_get_sibling_wall(idx, "wallAtEnd")} :
          IF floor = NoObj \/ found = Raised
             \/ (found = NoObj /\ (prev = Raised \/ next = Raised))
          THEN /\ Handed("wall", idx - 1, FALSE)
               /\ wallRes' = [wallRes EXCEPT ![idx].status = "failed"]
               /\ UNCHANGED <<objs, walls>>
          ELSE \E made \in {IF found = NoObj
                            THEN _create_wall(objs, floor, prev, next, idx)
                            ELSE Merged(objs, found)} :
               IF made.raised
               THEN /\ Handed("wall", idx - 1, FALSE)
                    /\ wallRes' = [wallRes EXCEPT ![idx] = ResOf("failed", floor, made)]
                    /\ objs' = made.objs
                    /\ UNCHANGED walls
               ELSE \E os4 \in {WallOnFloor(made, floor, file.walls[idx].id,
                                            found = NoObj)} :
                    /\ wallRes' = [wallRes EXCEPT ![idx] =
                          ResOf(IF found = NoObj THEN "created" ELSE "merged", floor, made)]
                    \* add_wall
                    /\ walls' = Append(walls, made.wall)
                    /\ IF side = "none"
                       THEN /\ Handed("wall", idx - 1, TRUE)
                            /\ objs' = os4
                       ELSE \E bb \in {_import_baseboard(os4, floor, made.wall, side)} :
                            /\ Handed("wall", idx - 1, ~bb.raised)
                            /\ objs' = bb.objs
    /\ UNCHANGED <<fc_objects, floors, default_floor>>

(* ------------------------- DoorOrWindowHandler ------------------------- *)
Inside(box, p) ==
    /\ box.xmin <= p.x /\ p.x <= box.xmax
    /\ box.ymin <= p.y /\ p.y <= box.ymax
    /\ box.zmin <= p.z /\ p.z <= box.zmax

\* _get_wall: the first wall of self.walls whose bounding box holds the point.
_get_wall(os, point) ==
    LET hits == {n \in 1..Len(walls) : Inside(os[walls[n]].box, point)}
    IN IF hits = {} THEN NoObj ELSE walls[CHOOSE n \in hits : \A n2 \in hits : n <= n2]

\* The places (x, y, elevation) drawn for an opening: on the centerline of
\* the first wall, at the joint of the first three walls, and off every wall.
DoorPoints == {Vec(250, 0, 0), Vec(500, 0, 0), Vec(2000, 2000, 0)}

\* The centre of the lower face of the opening, in host coordinates.
DoorCenter(os, floor, at) ==
    coord_sh2fc(Vec(at.x, at.y, at.z + dim_fc2sh(os[floor].z)))

\* _create_door: the window preset, hosted by the wall that holds its centre.
Window(os, wall) ==
    [Obj("Window", None, NoType) EXCEPT
        !.base = wall,
        !.width = IF wall # NoObj THEN os[wall].width ELSE 0 - DEFAULT_WALL_WIDTH]

\* DoorOrWindowHandler.process on the idx-th <doorOrWindow>; bad: x, y, width,
\* depth or height is missing.
ProcessDoorOrWindow ==
    /\ pc = "doorOrWindow"
    /\ idx <= NumElems("doorOrWindow")
    /\ \E level_id \in LevelRefs, bad \in BOOLEAN, at \in DoorPoints :
       \E floor \in {get_floor(level_id)},
          found \in {get_fc_object(objs, fc_objects, Id("doorOrWindow", idx - 1),
                                   "doorOrWindow")} :
          IF floor = NoObj \/ found = Raised \/ (found = NoObj /\ bad)
          THEN /\ Handed("doorOrWindow", idx - 1, FALSE)
               /\ UNCHANGED objs
          ELSE \E R \in {FoundOrNew(objs, found,
                            Window(objs, _get_wall(objs, DoorCenter(objs, floor, at))))} :
               /\ Handed("doorOrWindow", idx - 1, TRUE)
               /\ objs' = Tag(R.objs, R.h, "doorOrWindow", Id("doorOrWindow", idx - 1))
    /\ UNCHANGED <<fc_objects, floors, default_floor, walls, wallRes>>

(* --------------------------- FurnitureHandler -------------------------- *)
\* The piece the pass is at: its group (0 for a child of <home>) and the
\* number enumerate() gives it.
PieceAt(tag, n) ==
    IF tag = "furnitureGroup" THEN GroupPieces(file.groups, 1)[n] ELSE <<0, n - 1>>

\* furniture_id.  Pieces inside a group carry their own ids, different from
\* the ids of the pieces that are children of <home>.
FurnitureId(piece) ==
    Id(IF piece[1] = 0 THEN "piece" ELSE "groupPiece", 10 * piece[1] + piece[2])

\* FurnitureHandler.process on a <pieceOfFurniture>, a child of <home> or of
\* a <furnitureGroup>; bad: a dimension or the mesh entry is missing.
ProcessFurniture ==
    /\ pc \in {"pieceOfFurniture", "furnitureGroup"}
    /\ idx <= NumElems(pc)
    /\ \E level_id \in LevelRefs, bad \in BOOLEAN :
       \E floor \in {get_floor(level_id)},
          furniture_id \in {FurnitureId(PieceAt(pc, idx))} :
       \E found \in {get_fc_object(objs, fc_objects, furniture_id, "pieceOfFurniture")} :
          IF floor = NoObj \/ found = Raised \/ (found = NoObj /\ bad)
          THEN /\ Handed(pc, PieceAt(pc, idx)[2], FALSE)
               /\ UNCHANGED <<objs, fc_objects>>
          ELSE \E R \in {FoundOrNew(objs, found, Obj("Equipment", None, NoType))} :
               /\ Handed(pc, PieceAt(pc, idx)[2], TRUE)
               /\ objs' = AttachToGroup(
                            EnsureGroup(Tag(R.objs, R.h, "pieceOfFurniture", furniture_id),
                                        floor, "Furnitures"),
                            R.h, floor, "Furnitures")
               /\ fc_objects' = Put(fc_objects, furniture_id, R.h)
    /\ UNCHANGED <<floors, default_floor, walls, wallRes>>

(* ----------------------------- LightHandler ---------------------------- *)
\* LightHandler.process on the idx-th <light>, with `sources` <lightSource>
\* children.  With IMPORT_FURNITURES the call super().process(i, elm) lacks
\* the `parent` argument and raises TypeError.  Without it light_apppliance
\* is never bound and the first light source raises after it was created.
ProcessLight ==
    /\ pc = "light"
    /\ idx <= NumElems("light")
    /\ \E level_id \in LevelRefs, sources \in 0..1 :
       \E floor \in {get_floor(level_id)},
          found \in {get_fc_object(objs, fc_objects, Id("lightSource", idx - 1),
                                   "lightSource")} :
          IF floor = NoObj \/ prefs.IMPORT_FURNITURES
          THEN /\ Handed("light", idx - 1, FALSE)
               /\ UNCHANGED objs
          ELSE IF sources = 0
          THEN /\ Handed("light", idx - 1, TRUE)
               /\ UNCHANGED objs
          ELSE IF found = Raised
          THEN /\ Handed("light", idx - 1, FALSE)
               /\ UNCHANGED objs
          ELSE \E R \in {FoundOrNew(objs, found, Obj("PointLight", None, NoType))} :
               /\ Handed("light", idx - 1, FALSE)
               /\ objs' = Tag(R.objs, R.h, "lightSource", Id("lightSource", idx - 1))
    /\ UNCHANGED <<fc_objects, floors, default_floor, walls, wallRes>>

(* ----------------------------- CameraHandler --------------------------- *)
CameraAttributes == {"storedCamera", "observerCamera", "topCamera"}

\* The camera Camera.create() makes, put in the Cameras group.
NewCamera(os) ==
    [Obj("Camera", None, NoType) EXCEPT
        !.parent = CHOOSE h \in 1..Len(os) : os[h].kind = "Cameras"]

\* CameraHandler.process on the idx-th <observerCamera> or <camera>; bad: a
\* coordinate or an angle is missing.
ProcessCamera ==
    /\ pc \in {"observerCamera", "camera"}
    /\ idx <= NumElems(pc)
    /\ \E attribute \in CameraAttributes, bad \in BOOLEAN :
       \E found \in {get_fc_object(objs, fc_objects, Id(attribute, idx - 1), attribute)} :
          IF bad \/ (attribute = "storedCamera" /\ found = Raised)
          THEN /\ Handed(pc, idx - 1, FALSE)
               /\ UNCHANGED objs
          ELSE IF attribute # "storedCamera"
          THEN /\ Handed(pc, idx - 1, TRUE)
               /\ UNCHANGED objs
          ELSE \E R \in {FoundOrNew(objs, found, NewCamera(objs))} :
               /\ Handed(pc, idx - 1, TRUE)
               /\ objs' = Tag(R.objs, R.h, "camera", Id(pc, idx - 1))
    /\ UNCHANGED <<fc_objects, floors, default_floor, walls, wallRes>>

(* --------------------------- specifications ---------------------------- *)
\* The importer as __init__ leaves it.
Constructed ==
    /\ pc = "start"
    /\ idx = 1
    /\ fc_objects = EmptyMap
    /\ floors = EmptyMap
    /\ default_floor = NoObj
    /\ walls = <<>>
    /\ project = NoObj
    /\ site = NoObj
    /\ building = NoObj
    /\ total_object_count = 0
    /\ current_object_count = 0
    /\ log = <<>>
    /\ wallRes = [k \in 1..Len(file.walls) |-> PendingRes]

Preferences(merge, doors, furnitures, lights, cameras, join) ==
    [MERGE |-> merge, IMPORT_DOORS_AND_WINDOWS |-> doors, IMPORT_FURNITURES |-> furnitures,
     IMPORT_LIGHTS |-> lights, IMPORT_CAMERAS |-> cameras, JOIN_ARCH_WALL |-> join]

NoCount == [t \in CountedTags |-> 0]

\* The kernel sweeps every wall to a valid solid at once.
KernelValid(n) == [k \in 1..n |-> [firstValid |-> 0, bad |-> "invalid"]]

\* Archives with elements of every kind, at most MaxFileLen elements in all;
\* the walls declare no sibling.  The document is empty, MERGE is off.
Init ==
    /\ \E doors \in BOOLEAN, furnitures \in BOOLEAN, lights \in BOOLEAN, cameras \in BOOLEAN :
          prefs = Preferences(FALSE, doors, furnitures, lights, cameras, TRUE)
    /\ \E hasHome \in BOOLEAN,
          count \in [CountedTags -> 0..Max(MaxLevels, MaxPerKind)],
          groups \in {<<>>} \cup {<<n>> : n \in 0..MaxPerKind},
          nw \in 0..MaxPerKind :
          /\ count["level"] <= MaxLevels
          /\ \A t \in CountedTags \ {"level"} : count[t] <= MaxPerKind
          /\ SumTagsOf(count) + Len(groups) + SumSeq(groups) + nw <= MaxFileLen
          /\ ~hasHome => (count = NoCount /\ groups = <<>> /\ nw = 0)
          /\ \E wl \in (IF nw = 0 \/ count["level"] = 0 THEN {None}
                        ELSE {None, LevelId(1)}) :
                file = [hasHome |-> hasHome, count |-> count, groups |-> groups,
                        walls |-> [k \in 1..nw |-> WallElm(k, wl, None, None)]]
    /\ kernel = KernelValid(Len(file.walls))
    /\ objs = <<>>
    /\ earlier = <<>>
    /\ call = NoCall
    /\ NoExport
    /\ Constructed

Next ==
    \/ Open
    \/ NextPass
    \/ ProcessLevel
    \/ ProcessRoom
    \/ ProcessWall
    \/ ProcessDoorOrWindow
    \/ ProcessFurniture
    \/ ProcessLight
    \/ ProcessCamera

Spec == Init /\ [][Next]_vars

\* The sibling a wall can declare at its start: none, an id of no wall, the
\* wall before it or the wall after it in the archive (cyclically); at its
\* end: none or, for the walls at odd positions, the wall after it.
StartRefs(k, n) == {None, UnknownWall, WallId(((k + n - 2) % n) + 1), WallId((k % n) + 1)}

EndRefs(k, n) == IF k % 2 = 1 THEN {None, WallId((k % n) + 1)} ELSE {None}

\* The level attributes of the walls of an archive with n levels: none at all,
\* all the first level, or the walls spread over the levels.
WallLevel(pattern, k, n) ==
    CASE pattern = "none" -> None
      [] pattern = "first" -> LevelId(1)
      [] OTHER -> LevelId(((k - 1) % n) + 1)

LevelPatterns(n) ==
    CASE n = 0 -> {"none"}
      [] n = 1 -> {"none", "first"}
      [] OTHER -> {"first", "spread"}

\* The wall an earlier import of the first <wall> left in the document.
OldWall ==
    [Obj("Wall", WallId(1), "wall") EXCEPT !.width = 200,
        !.box = [xmin |-> 0, xmax |-> 5000, ymin |-> 0 - 50, ymax |-> 50,
                 zmin |-> 0, zmax |-> 2500]]

\* Archives of levels and walls only, the walls declaring siblings; the
\* kernel sweeps every wall at once.
InitWall ==
    /\ \E merge \in BOOLEAN, join \in BOOLEAN :
          /\ prefs = Preferences(merge, FALSE, FALSE, FALSE, FALSE, join)
          /\ objs = IF merge THEN <<OldWall>> ELSE <<>>
    /\ \E nl \in 0..MaxLevels, nw \in 1..MaxWalls :
          \E pattern \in LevelPatterns(nl),
             atStart \in [1..nw -> {None, UnknownWall} \cup {WallId(k) : k \in 1..nw}],
             atEnd \in [1..nw -> {None} \cup {WallId(k) : k \in 1..nw}] :
             /\ \A k \in 1..nw : atStart[k] \in StartRefs(k, nw) /\ atEnd[k] \in EndRefs(k, nw)
             /\ file = [hasHome |-> TRUE, count |-> [NoCount EXCEPT !["level"] = nl],
                        groups |-> <<>>,
                        walls |-> [k \in 1..nw |->
                            WallElm(k, WallLevel(pattern, k, nl), atStart[k], atEnd[k])]]
    /\ kernel = KernelValid(Len(file.walls))
    /\ earlier = <<>>
    /\ call = NoCall
    /\ NoExport
    /\ Constructed

NextWall ==
    \/ Open
    \/ NextPass
    \/ ProcessLevel
    \/ ProcessWall

SpecWall == InitWall /\ [][NextWall]_vars

\* The number of rotations after which the kernel first sweeps a wall to a
\* valid solid: at once, soon, around the bound of the loop, or beyond it.
SweepAnswers ==
    {0, 1, 2, max_adjustment - 1, max_adjustment, max_adjustment + 1, max_adjustment + 2}

\* Archives of walls without siblings on the default floor, the kernel
\* answering the sweeps in every way.
InitSweep ==
    /\ prefs = Preferences(FALSE, FALSE, FALSE, FALSE, FALSE, TRUE)
    /\ objs = <<>>
    /\ \E nw \in 1..MaxWalls :
          /\ file = [hasHome |-> TRUE, count |-> NoCount, groups |-> <<>>,
                     walls |-> [k \in 1..nw |-> WallElm(k, None, None, None)]]
          /\ kernel \in [1..nw -> [firstValid : SweepAnswers, bad : {"null", "invalid"}]]
    /\ earlier = <<>>
    /\ call = NoCall
    /\ NoExport
    /\ Constructed

NextSweep ==
    \/ Open
    \/ NextPass
    \/ ProcessWall

SpecSweep == InitSweep /\ [][NextSweep]_vars

(* ------------------------------- claims -------------------------------- *)
\* The order of the kinds the claims state, tag by tag.
ClaimedOrder == <<"level", "room", "wall", "doorOrWindow", "pieceOfFurniture",
                  "furnitureGroup", "light", "observerCamera", "camera">>

ClaimedRank(tag) == CHOOSE n \in 1..Len(ClaimedOrder) : ClaimedOrder[n] = tag

\* The number of elements of a tag handed to the handler so far.
Handled(tag) == Cardinality({n \in 1..Len(log) : log[n].tag = tag})

\* The tags import_sh3d imports under the preferences.
ImportedTags == {t \in {ClaimedOrder[n] : n \in 1..Len(ClaimedOrder)} : PassRuns(t)}

\* C1: the elements are handed to the handlers in the order level, room,
\* wall, doorOrWindow, pieceOfFurniture (children of <home>, then those of
\* the furniture groups), light, camera: an element of an earlier kind is
\* never handed after one of a later kind; when an element is handed, every
\* element of every earlier imported kind has been handed, failed or not; and
\* every <wall> has been handed before the first opening.
C1_FixedOrder ==
    /\ \A i, j \in 1..Len(log) :
          i < j => ClaimedRank(log[i].tag) <= ClaimedRank(log[j].tag)
    /\ \A j \in 1..Len(log) : \A t \in ImportedTags :
          ClaimedRank(t) < ClaimedRank(log[j].tag) => Handled(t) = NumElems(t)
    /\ Handled("doorOrWindow") > 0 => Handled("wall") = Len(file.walls)

C1_Witness ==
    /\ pc = "done"
    /\ \E i, j, k \in 1..Len(log) :
          /\ i < j /\ j < k
          /\ log[i].tag = "level" /\ log[j].tag = "wall" /\ log[k].tag = "doorOrWindow"

\* C2: an error a handler raises on one element is caught at that element:
\* the import of an archive with Home.xml never fails as a whole, it goes on
\* until it is done, and when it is done every element of every imported
\* kind was handed to its handler.
C2_ErrorCaughtPerElement ==
    file.hasHome =>
        /\ pc # "failed"
        /\ pc # "done" => ENABLED Next
        /\ pc = "done" => \A t \in ImportedTags : Handled(t) = NumElems(t)

\* A room failed in an archive with several levels, and a wall of the same
\* import was handed after it.
C2_Witness ==
    /\ pc = "done"
    /\ file.count["level"] > 1
    /\ \E i, j \in 1..Len(log) :
          /\ i < j
          /\ log[i].tag = "room" /\ ~log[i].ok
          /\ log[j].tag = "wall" /\ log[j].ok

\* C3: without Home.xml the import fails as a whole: no element is handed to
\* a handler and no project, site, building, floor or group is created.
C3_MissingHomeIsFatal ==
    /\ ~file.hasHome => pc \in {"start", "failed"}
    /\ pc = "failed" =>
          /\ ~file.hasHome
          /\ log = <<>>
          /\ current_object_count = 0
          /\ objs = <<>>
          /\ project = NoObj /\ site = NoObj /\ building = NoObj
          /\ default_floor = NoObj /\ floors = EmptyMap

C3_Witness == pc = "failed" /\ ~file.hasHome /\ (prefs.IMPORT_LIGHTS \/ prefs.IMPORT_CAMERAS)

\* The passes after the levels: the floors of the import are registered.
AfterLevels == pc \notin {"start", "failed", "level"}

\* C4: when exactly one floor exists in the import, declared by one <level>
\* or made as the default floor, get_floor returns it whatever the level id;
\* otherwise it returns the floor registered under the id, if any.
C4_GetFloor ==
    AfterLevels =>
        \A level_id \in LevelRefs :
            IF Cardinality(DOMAIN floors) = 1
            THEN \A f \in DOMAIN floors : get_floor(level_id) = floors[f]
            ELSE level_id \in DOMAIN floors => get_floor(level_id) = floors[level_id]

\* One <level> is declared and registered, and get_floor gives no floor to an
\* element without level attribute.
C4_Witness ==
    /\ AfterLevels
    /\ file.count["level"] = 1
    /\ Cardinality(DOMAIN floors) = 1
    /\ get_floor(None) = NoObj

\* C5: an opening or a piece of furniture without level attribute gets a
\* floor whenever the import has one.
C5_NoLevelResolves ==
    (/\ pc \in {"doorOrWindow", "pieceOfFurniture", "furnitureGroup"}
     /\ idx <= NumElems(pc)
     /\ DOMAIN floors # {})
        => get_floor(None) # NoObj

\* Two levels are registered and an opening is about to be handed.
C5_Witness ==
    /\ pc = "doorOrWindow"
    /\ idx <= NumElems(pc)
    /\ Cardinality(DOMAIN floors) = 2
    /\ get_floor(None) = NoObj

\* The walls of the archive WallHandler.process was called on.
ProcessedWalls == {k \in 1..Len(file.walls) : wallRes[k].status # "pending"}

CreatedWalls == {k \in 1..Len(file.walls) : wallRes[k].status = "created"}

SiblingAttributes == {"wallAtStart", "wallAtEnd"}

\* The wall declares a sibling no <wall> of the archive has the id of.
DeclaresUnknownSibling(k) ==
    \E attr \in SiblingAttributes :
        file.walls[k][attr] # None /\ FindWall(file.walls[k][attr]) = NoElm

\* The objects of the document that carry the id of the k-th <wall>.
ObjectsOfWall(k) == {h \in 1..Len(objs) : objs[h].id = file.walls[k].id}

InWallList(h) == \E n \in 1..Len(walls) : walls[n] = h

\* C6: a wall that declares a sibling id no <wall> has fails alone: no wall
\* object of it is attached to a floor or in the wall list of the importer,
\* and every other wall is handed to the handler.
C6_UnknownSiblingFailsWall ==
    /\ \A k \in ProcessedWalls :
          DeclaresUnknownSibling(k) =>
              /\ wallRes[k].status = "failed"
              /\ \A h \in ObjectsOfWall(k) : objs[h].parent = NoObj /\ ~InWallList(h)
    /\ pc = "done" => Handled("wall") = Len(file.walls)

\* A wall merged with an object of the document although it declares an
\* unknown sibling.
C6_Witness ==
    \E k \in ProcessedWalls :
        /\ DeclaresUnknownSibling(k)
        /\ wallRes[k].status = "merged"
        /\ InWallList(wallRes[k].wall)
        /\ objs[wallRes[k].wall].parent # NoObj

\* The descriptor the k-th wall was built with for the sibling it declares.
UsedSiblingDetails(k, attr) ==
    IF attr = "wallAtStart" THEN wallRes[k].prev ELSE wallRes[k].next

\* C7: the sibling a wall declares is resolved wherever its element stands in
\* the archive, and the descriptor used for it depends on the attributes of
\* the sibling element only: it is the descriptor the sibling itself is
\* built with, and two walls that declare the same sibling use the same one.
C7_SiblingDescriptor ==
    \A k \in CreatedWalls : \A attr \in SiblingAttributes :
        FindWall(file.walls[k][attr]) # NoElm =>
            /\ UsedSiblingDetails(k, attr) # NoDetails
            /\ FindWall(file.walls[k][attr]) \in CreatedWalls =>
                  UsedSiblingDetails(k, attr) =
                      wallRes[FindWall(file.walls[k][attr])].details
            /\ \A k2 \in CreatedWalls : \A attr2 \in SiblingAttributes :
                  file.walls[k2][attr2] = file.walls[k][attr] =>
                      UsedSiblingDetails(k2, attr2) = UsedSiblingDetails(k, attr)

\* A wall built with a descriptor of its sibling that is not the one the
\* sibling is built with.
C7_Witness ==
    \E k \in CreatedWalls : \E attr \in SiblingAttributes :
        /\ FindWall(file.walls[k][attr]) \in CreatedWalls
        /\ UsedSiblingDetails(k, attr) # wallRes[FindWall(file.walls[k][attr])].details

\* The section of the k-th wall at the end `attr` names, joined with wall s.
SectionJoinedWith(k, attr, s) ==
    _get_section(wallRes[k].details, attr = "wallAtStart",
                 _get_wall_details(objs, wallRes[k].floor, s))

UsedSection(k, attr) ==
    IF attr = "wallAtStart" THEN wallRes[k].section_start ELSE wallRes[k].section_end

\* C8: with walls joined, the section at an end where the wall declares a
\* sibling is the one computed from the declared wall, whatever other wall
\* has an endpoint at that point.
C8_DeclaredSiblingUsed ==
    \A k \in CreatedWalls : \A attr \in SiblingAttributes :
        (prefs.JOIN_ARCH_WALL /\ file.walls[k][attr] # None) =>
            /\ UsedSection(k, attr).joined
            /\ UsedSection(k, attr) =
                  SectionJoinedWith(k, attr, FindWall(file.walls[k][attr]))

\* A wall built with a declared sibling while another wall, which gives
\* another section, has an endpoint at the same point.
C8_Witness ==
    \E k \in CreatedWalls : \E attr \in SiblingAttributes :
        /\ prefs.JOIN_ARCH_WALL
        /\ file.walls[k][attr] # None
        /\ CoincidentWall(k, attr) # NoElm
        /\ CoincidentWall(k, attr) # FindWall(file.walls[k][attr])
        /\ UsedSection(k, attr) # SectionJoinedWith(k, attr, CoincidentWall(k, attr))

\* C9: the end section is rotated until the first valid sweep, never more
\* than 45 times, and not at all when the first sweep is valid.
C9_BoundedRotation ==
    \A k \in ProcessedWalls :
        /\ wallRes[k].rotations <= 45
        /\ kernel[k].firstValid = 0 => wallRes[k].rotations = 0
        /\ kernel[k].firstValid <= 45 => wallRes[k].rotations = kernel[k].firstValid

\* A wall whose end section was rotated 46 times.
C9_Witness == \E k \in ProcessedWalls : wallRes[k].rotations = 46

\* C10: a wall whose sweep is still invalid or null after the rotations has
\* no wall object: none is created, attached to the floor or put in the wall
\* list, and the walls after it are handed to the handler.
C10_UnbuildableWallSkipped ==
    /\ \A k \in ProcessedWalls :
          SweepIsBad(k, wallRes[k].rotations) =>
              /\ wallRes[k].status = "failed"
              /\ wallRes[k].wall = NoObj
              /\ \A h \in ObjectsOfWall(k) : objs[h].parent = NoObj /\ ~InWallList(h)
    /\ pc = "done" => Handled("wall") = Len(file.walls)

\* A wall made from a null sweep, on its floor and in the wall list.
C10_Witness ==
    \E k \in ProcessedWalls :
        /\ wallRes[k].status = "created"
        /\ wallRes[k].shape = "null"
        /\ InWallList(wallRes[k].wall)
        /\ objs[wallRes[k].wall].parent = wallRes[k].floor

\* A second call of import_sh3d on the same archive and the same document,
\* by a new SH3DImporter, once the import before it is over.
Reimport ==
    /\ pc = "done"
    /\ Len(earlier) + 1 < MaxImports
    /\ earlier' = Append(earlier, objs)
    /\ pc' = "start"
    /\ idx' = 1
    /\ fc_objects' = EmptyMap
    /\ floors' = EmptyMap
    /\ default_floor' = NoObj
    /\ walls' = <<>>
    /\ project' = NoObj
    /\ site' = NoObj
    /\ building' = NoObj
    /\ total_object_count' = 0
    /\ current_object_count' = 0
    /\ log' = <<>>
    /\ wallRes' = [k \in 1..Len(file.walls) |-> PendingRes]
    /\ UNCHANGED <<file, prefs, kernel, objs, call, exporting>>

\* Archives of at most one element of each kind, at most MaxFileLen in all,
\* imported MaxImports times into a document that is empty at first, MERGE on.
InitMerge ==
    /\ \E furnitures \in BOOLEAN :
          prefs = Preferences(TRUE, TRUE, furnitures, TRUE, TRUE, TRUE)
    /\ \E count \in [CountedTags -> 0..1], nw \in 0..1 :
          /\ SumTagsOf(count) + nw <= MaxFileLen
          /\ \E wl \in (IF nw = 0 \/ count["level"] = 0 THEN {None}
                        ELSE {None, LevelId(1)}) :
                file = [hasHome |-> TRUE, count |-> count, groups |-> <<>>,
                        walls |-> [k \in 1..nw |-> WallElm(k, wl, None, None)]]
    /\ kernel = KernelValid(Len(file.walls))
    /\ objs = <<>>
    /\ earlier = <<>>
    /\ call = NoCall
    /\ NoExport
    /\ Constructed

NextMerge ==
    \/ Open
    \/ NextPass
    \/ ProcessLevel
    \/ ProcessRoom
    \/ ProcessWall
    \/ ProcessDoorOrWindow
    \/ ProcessFurniture
    \/ ProcessLight
    \/ ProcessCamera
    \/ Reimport

SpecMerge == InitMerge /\ [][NextMerge]_vars

(* --------------------------- object registry --------------------------- *)
\* The values of the shType property the handlers store and look up.
ShTypes ==
    {"level", "room", "wall", "baseboard", "doorOrWindow", "pieceOfFurniture",
     "lightSource", "camera", "storedCamera"}

Registered(id) == id \in DOMAIN fc_objects

\* An id no element of an archive carries.
UnknownId == Id("unknown", 99)

\* The lookup of id with a non-empty sh_type, as any handler can make it now.
Lookup(id, sh_type) == get_fc_object(objs, fc_objects, id, sh_type)

\* C11: a lookup with a non-empty sh_type never returns an object of another
\* shType: it raises when the id is registered with another shType, and it
\* returns None when the id is not registered.
C11_KindCheckedLookup ==
    \A id \in DOMAIN fc_objects \cup {UnknownId} : \A sh_type \in ShTypes :
        /\ Lookup(id, sh_type) \notin {NoObj, Raised} =>
              objs[Lookup(id, sh_type)].shType = sh_type
        /\ (Registered(id) /\ objs[fc_objects[id]].shType # sh_type) =>
              Lookup(id, sh_type) = Raised
        /\ ~Registered(id) => Lookup(id, sh_type) = NoObj

\* An id registered with one shType and looked up with another: the lookup
\* returns None instead of raising.
C11_Witness ==
    \E id \in DOMAIN fc_objects : \E sh_type \in ShTypes :
        /\ objs[fc_objects[id]].shType # sh_type
        /\ Lookup(id, sh_type) = NoObj

\* The pieces of furniture FurnitureHandler.process registered so far.
RegisteredFurniture ==
    {id \in DOMAIN fc_objects : objs[fc_objects[id]].shType = "pieceOfFurniture"}

\* C12: once a piece of furniture is registered under its id, a lookup of
\* that id with shType 'pieceOfFurniture' later in the import returns it,
\* with MERGE on or off.
C12_RegisteredFurnitureFound ==
    \A id \in RegisteredFurniture : Lookup(id, "pieceOfFurniture") = fc_objects[id]

\* A registered piece of furniture the lookup does not return, MERGE being
\* off, at the time the lights are imported.
C12_Witness ==
    /\ pc = "light"
    /\ ~prefs.MERGE
    /\ \E id \in RegisteredFurniture : Lookup(id, "pieceOfFurniture") = NoObj

(* ------------------------------ re-import ------------------------------ *)
\* The shType of the objects a merging import looks up before creating.
MergedTypes ==
    {"level", "room", "wall", "baseboard", "doorOrWindow", "pieceOfFurniture",
     "lightSource", "camera"}

\* The document the import before this one left.
Before == earlier[Len(earlier)]

\* The objects this import added to the document.
AddedObjects == (Len(Before) + 1)..Len(objs)

\* The object of the document before the import that carries the id and the
\* shType of object h, if any.
EarlierObjectOf(h) ==
    {g \in 1..Len(Before) : Before[g].id = objs[h].id /\ Before[g].shType = objs[h].shType}

\* C13: with MERGE on, a second import of the same archive into the same
\* document creates no second object for a level, room, wall, baseboard,
\* opening, piece of furniture, light source or stored camera the first
\* import created: it finds the first one by its stored id and shType.
C13_ReimportCreatesNoDuplicate ==
    (prefs.MERGE /\ earlier # <<>>) =>
        \A h \in AddedObjects :
            (objs[h].shType \in MergedTypes /\ objs[h].id # None) =>
                EarlierObjectOf(h) = {}

\* A second import that created a camera although the first import had left
\* a camera with the same id in the document.
C13_Witness ==
    /\ prefs.MERGE
    /\ earlier # <<>>
    /\ \E h \in AddedObjects :
          /\ objs[h].shType = "camera"
          /\ objs[h].kind = "Camera"
          /\ EarlierObjectOf(h) # {}

(* ----------------------------- SH3DCommons ----------------------------- *)
\* The floats of SH3DCommons are modelled as exact fractions n/d in lowest
\* terms with d > 0: a float result can differ from the fraction by the
\* rounding of the last binary digit.
RECURSIVE GCD(_, _)
GCD(a, b) == IF b = 0 THEN a ELSE GCD(b, a % b)

Fraction(n, d) ==
    LET g == GCD(IF n < 0 THEN 0 - n ELSE n, d)
    IN IF n = 0 THEN [n |-> 0, d |-> 1] ELSE [n |-> n \div g, d |-> d \div g]

\* float(x) * k, float(x) / k and -float(x), k a positive integer.
Times(x, k) == Fraction(x.n * k, x.d)

Over(x, k) == Fraction(x.n, x.d * k)

Minus(x) == [n |-> 0 - x.n, d |-> x.d]

\* A plausible slip: dim_fc2sh scaling the same way as dim_sh2fc.
Commons_dim_fc2sh_Scaled(dimension) == Times(dimension, FACTOR)

\* SH3DCommons.dim_fc2sh and SH3DCommons.dim_sh2fc.
Commons_dim_fc2sh(dimension) == Over(dimension, FACTOR)

Commons_dim_sh2fc(dimension) == Times(dimension, FACTOR)

\* A plausible slip: coord_fc2sh keeping the sign of y.
Commons_coord_fc2sh_SameY(vector) ==
    [x |-> Over(vector.x, FACTOR), y |-> Over(vector.y, FACTOR), z |-> Over(vector.z, FACTOR)]

\* SH3DCommons.coord_fc2sh and SH3DCommons.coord_sh2fc.
Commons_coord_fc2sh(vector) ==
    [x |-> Over(vector.x, FACTOR), y |-> Over(Minus(vector.y), FACTOR),
     z |-> Over(vector.z, FACTOR)]

Commons_coord_sh2fc(vector) ==
    [x |-> Times(vector.x, FACTOR), y |-> Times(Minus(vector.y), FACTOR),
     z |-> Times(vector.z, FACTOR)]

\* A colour string: the sequence of its hexadecimal digits.  hexcode[a:b]:
Slice(hexcode, a, b) == SubSeq(hexcode, a + 1, Min(b, Len(hexcode)))

RECURSIVE HexValue(_)
HexValue(digits) ==
    IF digits = <<>> THEN 0
    ELSE 16 * HexValue(SubSeq(digits, 1, Len(digits) - 1)) + digits[Len(digits)]

\* int(text, 16): ValueError on the empty string.
int16(digits) == IF digits = <<>> THEN Raised ELSE HexValue(digits)

\* f"{n:0{width}X}", n >= 0.
RECURSIVE HexDigitsOf(_)
HexDigitsOf(n) == IF n < 16 THEN <<n>> ELSE Append(HexDigitsOf(n \div 16), n % 16)

RECURSIVE Padded(_, _)
Padded(digits, width) ==
    IF Len(digits) >= width THEN digits ELSE Padded(<<0>> \o digits, width)

Format(n, width) == Padded(HexDigitsOf(n), width)

\* round(x): to the nearest integer, a tie to the even one.
round(x) ==
    LET q == x.n \div x.d
        r == x.n % x.d
    IN CASE 2 * r < x.d -> q
         [] 2 * r > x.d -> q + 1
         [] OTHER -> IF q % 2 = 0 THEN q ELSE q + 1

\* The host colours: a tuple of channels or a packed integer.
ColorTuple(channels) == [kind |-> "tuple", channels |-> channels, value |-> 0]

ColorInt(value) == [kind |-> "int", channels |-> <<>>, value |-> value]

\* The call raised instead of returning a colour.
ColorRaised == [kind |-> "raised", channels |-> <<>>, value |-> 0]

\* color_sh2fc on a string: the channels are the integers the digit pairs
\* spell, not scaled to 0..1; a string of six digits has hexcode[0:0] = ''
\* for alpha and int('', 16) raises ValueError.
color_sh2fc(hexcode) ==
    LET offset == IF Len(hexcode) = 6 THEN 0 ELSE 2
        r == int16(Slice(hexcode, offset, offset + 2))
        g == int16(Slice(hexcode, offset + 2, offset + 4))
        b == int16(Slice(hexcode, offset + 4, offset + 6))
        a == int16(Slice(hexcode, 0, offset))
    IN IF Raised \in {r, g, b, a} THEN ColorRaised
       ELSE ColorTuple(<<Fraction(r, 1), Fraction(g, 1), Fraction(b, 1), Fraction(a, 1)>>)

RECURSIVE Joined(_)
Joined(strings) ==
    IF strings = <<>> THEN <<>> ELSE Head(strings) \o Joined(Tail(strings))

color_fc2sh(color) ==
    LET hexcode ==
            IF color.kind = "tuple"
            THEN Joined([i \in 1..Len(color.channels) |->
                            Format(round(Times(color.channels[i], 255)), 2)])
            ELSE Format(color.value, 8)
    IN Slice(hexcode, 6, 8) \o Slice(hexcode, 0, 6)

\* The variables of the importer, which the functions of SH3DCommons leave alone.
importer == <<pc, idx, file, prefs, kernel, objs, fc_objects, floors, default_floor,
              walls, project, site, building, total_object_count,
              current_object_count, log, wallRes, earlier>>

\* The function under call returns res.
Return(res) == call' = [call EXCEPT !.res = res, !.done = TRUE]

Called(fn) == call.fn = fn /\ ~call.done

Call_dim_sh2fc ==
    /\ Called("dim_sh2fc")
    /\ Return(Commons_dim_sh2fc(call.arg))
    /\ UNCHANGED <<importer, exporting>>

Call_dim_fc2sh ==
    /\ Called("dim_fc2sh")
    /\ Return(Commons_dim_fc2sh(call.arg))
    /\ UNCHANGED <<importer, exporting>>

Call_coord_sh2fc ==
    /\ Called("coord_sh2fc")
    /\ Return(Commons_coord_sh2fc(call.arg))
    /\ UNCHANGED <<importer, exporting>>

Call_coord_fc2sh ==
    /\ Called("coord_fc2sh")
    /\ Return(Commons_coord_fc2sh(call.arg))
    /\ UNCHANGED <<importer, exporting>>

Call_color_sh2fc ==
    /\ Called("color_sh2fc")
    /\ Return(color_sh2fc(call.arg))
    /\ UNCHANGED <<importer, exporting>>

Call_color_fc2sh ==
    /\ Called("color_fc2sh")
    /\ Return(color_fc2sh(call.arg))
    /\ UNCHANGED <<importer, exporting>>

\* The lengths and coordinates the functions are called with: the fractions
\* of numerator up to MaxNumerator over the denominators 1, 2, 3 and 10.
Lengths ==
    {Fraction(n, d) : n \in (0 - MaxNumerator)..MaxNumerator, d \in {1, 2, 3, 10}}

Coordinates == {Fraction(n, d) : n \in {0 - MaxNumerator, 0, 1, 7}, d \in {1, 3}}

Points == [x : Coordinates, y : Coordinates, z : Coordinates]

\* The colour strings: six or eight of the digits 0, 1, A and F.
HexDigits == {0, 1, 10, 15}

HexStrings == [1..6 -> HexDigits] \cup [1..8 -> HexDigits]

\* The host colours: the tuples of four channels between 0 and 1, and the
\* packed integers of four bytes (below 2^31).
Channels == {Fraction(0, 1), Fraction(1, 3), Fraction(1, 2), Fraction(4, 5), Fraction(1, 1)}

Bytes == {0, 18, 127}

HostColors ==
    {ColorTuple(c) : c \in [1..4 -> Channels]} \cup
    {ColorInt(((r * 256 + g) * 256 + b) * 256 + a) :
        r \in Bytes, g \in Bytes, b \in Bytes \cup {255}, a \in Bytes \cup {255}}

Arguments(fn) ==
    CASE fn \in {"dim_sh2fc", "dim_fc2sh"} -> Lengths
      [] fn \in {"coord_sh2fc", "coord_fc2sh"} -> Points
      [] fn = "color_sh2fc" -> HexStrings
      [] fn = "color_fc2sh" -> HostColors

\* No import is running.
NoImport ==
    /\ file = [hasHome |-> FALSE, count |-> NoCount, groups |-> <<>>, walls |-> <<>>]
    /\ prefs = Preferences(FALSE, FALSE, FALSE, FALSE, FALSE, FALSE)
    /\ kernel = <<>>
    /\ objs = <<>>
    /\ earlier = <<>>
    /\ Constructed

\* One call of one function of SH3DCommons, on every argument of the bounded sets.
InitCommons ==
    /\ NoImport
    /\ NoExport
    /\ \E fn \in {"dim_sh2fc", "dim_fc2sh", "coord_sh2fc", "coord_fc2sh",
                  "color_sh2fc", "color_fc2sh"} :
       \E arg \in Arguments(fn) :
          call = [fn |-> fn, arg |-> arg, res |-> 0, done |-> FALSE]

NextCommons ==
    \/ Call_dim_sh2fc
    \/ Call_dim_fc2sh
    \/ Call_coord_sh2fc
    \/ Call_coord_fc2sh
    \/ Call_color_sh2fc
    \/ Call_color_fc2sh

SpecCommons == InitCommons /\ [][NextCommons]_vars

\* C14: dim_sh2fc(v) is v times 10, dim_fc2sh(v) is v divided by 10, and
\* dim_fc2sh(dim_sh2fc(v)) = v; the same for the importer's own copies of
\* the two functions, on whole lengths.
C14_LengthRoundTrip ==
    /\ (call.fn = "dim_sh2fc" /\ call.done) =>
          /\ call.res = Fraction(call.arg.n * 10, call.arg.d)
          /\ Commons_dim_fc2sh(call.res) = call.arg
          /\ call.arg.d = 1 =>
                /\ dim_sh2fc(call.arg.n) = call.arg.n * 10
                /\ dim_fc2sh(dim_sh2fc(call.arg.n)) = call.arg.n
    /\ (call.fn = "dim_fc2sh" /\ call.done) =>
          /\ call.res = Fraction(call.arg.n, call.arg.d * 10)
          /\ Times(call.res, 10) = call.arg

\* A length that is no whole number, converted to the host unit, whose
\* conversion back is a different value than the conversion itself.
C14_Witness ==
    /\ call.fn = "dim_sh2fc"
    /\ call.done
    /\ call.arg.d # 1
    /\ call.arg.n < 0
    /\ Commons_dim_fc2sh(call.res) = call.arg
    /\ call.res # call.arg

\* C15: coord_sh2fc maps (x, y, z) to (10x, -10y, 10z), coord_fc2sh maps
\* (x, y, z) to (x/10, -y/10, z/10), and each undoes the other.
C15_CoordRoundTrip ==
    /\ (call.fn = "coord_sh2fc" /\ call.done) =>
          /\ call.res = [x |-> Fraction(call.arg.x.n * 10, call.arg.x.d),
                         y |-> Fraction(0 - call.arg.y.n * 10, call.arg.y.d),
                         z |-> Fraction(call.arg.z.n * 10, call.arg.z.d)]
          /\ Commons_coord_fc2sh(call.res) = call.arg
    /\ (call.fn = "coord_fc2sh" /\ call.done) =>
          /\ call.res = [x |-> Fraction(call.arg.x.n, call.arg.x.d * 10),
                         y |-> Fraction(0 - call.arg.y.n, call.arg.y.d * 10),
                         z |-> Fraction(call.arg.z.n, call.arg.z.d * 10)]
          /\ Commons_coord_sh2fc(call.res) = call.arg

\* A point off the x axis converted to the host convention and back: the
\* sign of y differs in between and is the original one in the end.
C15_Witness ==
    /\ call.fn = "coord_sh2fc"
    /\ call.done
    /\ call.arg.y.n > 0
    /\ call.res.y.n < 0
    /\ Commons_coord_fc2sh(call.res).y = call.arg.y

\* color_fc2sh(color_sh2fc(c)), no string when color_sh2fc raises.
ColorRoundTrip(c) ==
    IF color_sh2fc(c) = ColorRaised THEN <<Raised>> ELSE color_fc2sh(color_sh2fc(c))

\* C16: a colour string of six or eight hexadecimal digits converted with
\* color_sh2fc and back with color_fc2sh is the same string.
C16_ColorRoundTrip ==
    (call.fn = "color_sh2fc" /\ call.done) => ColorRoundTrip(call.arg) = call.arg

\* A string of eight digits that comes back as another string.
C16_Witness ==
    /\ call.fn = "color_sh2fc"
    /\ call.done
    /\ Len(call.arg) = 8
    /\ call.res # ColorRaised
    /\ ColorRoundTrip(call.arg) # call.arg

\* The byte the i-th pair of digits of a colour string spells.
Pair(hexcode, i) == 16 * hexcode[2 * i - 1] + hexcode[2 * i]

\* The host tuple (R, G, B, A) of integers.
RGBA(r, g, b, a) ==
    ColorTuple(<<Fraction(r, 1), Fraction(g, 1), Fraction(b, 1), Fraction(a, 1)>>)

\* The byte nearest to 255 times a channel between 0 and 1.
Nearest(channel) ==
    CHOOSE k \in 0..255 : \A j \in 0..255 :
        Abs(2 * (255 * channel.n - k * channel.d)) <= Abs(2 * (255 * channel.n - j * channel.d))
        /\ (Abs(255 * channel.n - k * channel.d) = Abs(255 * channel.n - j * channel.d)
               => (k = j \/ k % 2 = 0))

\* C17: color_sh2fc takes RRGGBB (alpha defaulted) and AARRGGBB and returns
\* (R, G, B, A); color_fc2sh takes a tuple of channels between 0 and 1, each
\* rounded to the nearest of 255, or a packed 0xRRGGBBAA integer, and
\* returns the digits alpha first, then RGB.
C17_ColorConversions ==
    /\ (call.fn = "color_sh2fc" /\ call.done) =>
          /\ call.res # ColorRaised
          /\ Len(call.arg) = 6 =>
                \E a \in 0..255 :
                    call.res = RGBA(Pair(call.arg, 1), Pair(call.arg, 2), Pair(call.arg, 3), a)
          /\ Len(call.arg) = 8 =>
                call.res = RGBA(Pair(call.arg, 2), Pair(call.arg, 3), Pair(call.arg, 4),
                                Pair(call.arg, 1))
    /\ (call.fn = "color_fc2sh" /\ call.done /\ call.arg.kind = "tuple") =>
          /\ Len(call.res) = 8
          /\ Pair(call.res, 1) = Nearest(call.arg.channels[4])
          /\ \A i \in 1..3 : Pair(call.res, i + 1) = Nearest(call.arg.channels[i])
    /\ (call.fn = "color_fc2sh" /\ call.done /\ call.arg.kind = "int") =>
          /\ Len(call.res) = 8
          /\ Pair(call.res, 1) = call.arg.value % 256
          /\ Pair(call.res, 2) = call.arg.value \div (256 * 256 * 256)
          /\ Pair(call.res, 3) = (call.arg.value \div (256 * 256)) % 256
          /\ Pair(call.res, 4) = (call.arg.value \div 256) % 256

\* A string of six digits on which color_sh2fc raised.
C17_Witness ==
    /\ call.fn = "color_sh2fc"
    /\ call.done
    /\ Len(call.arg) = 6
    /\ call.res = ColorRaised

(* ----------------------------- SH3DExporter ---------------------------- *)
\* An object of the exported document; IfcType is NoType on an object
\* without that attribute, floor is the object ReferenceFloorName names,
\* model is the value of the property of that name.
XObj(IfcType, TypeId) ==
    [IfcType |-> IfcType, TypeId |-> TypeId, Group |-> <<>>, Hosts |-> <<>>,
     Start |-> Vec(Fraction(0, 1), Fraction(0, 1), Fraction(0, 1)),
     End |-> Vec(Fraction(0, 1), Fraction(0, 1), Fraction(0, 1)),
     floor |-> NoObj, model |-> ""]

\* A plausible slip: the coordinates cut to the tolerance instead of rounded.
hash_vector_Truncated(v) ==
    <<Times(v.x, 10).n \div Times(v.x, 10).d,
      Times(v.y, 10).n \div Times(v.y, 10).d,
      Times(v.z, 10).n \div Times(v.z, 10).d>>

\* 10 to the power n.
RECURSIVE Pow10(_)
Pow10(n) == IF n = 0 THEN 1 ELSE 10 * Pow10(n - 1)

\* hash_vector: the key is the tuple of the coordinates rounded to ndigits
\* decimals, here as whole numbers of tenths (equal tuples hash equal; two
\* different tuples are taken to hash differently).
hash_vector(v) ==
    <<round(Times(v.x, Pow10(ndigits))), round(Times(v.y, Pow10(ndigits))),
      round(Times(v.z, Pow10(ndigits)))>>

\* The objects _prepare_obj_for_export visits from obj, in order: obj, what
\* its Group reaches, then what its hosts reach.
RECURSIVE PrepareOrder(_)
PrepareOrder(obj) ==
    <<obj>>
    \o Joined([i \in 1..Len(doc[obj].Group) |-> PrepareOrder(doc[obj].Group[i])])
    \o Joined([i \in 1..Len(doc[obj].Hosts) |-> PrepareOrder(doc[obj].Hosts[i])])

\* dict.get(key, []).
Bucket(map, key) == IF key \in DOMAIN map THEN map[key] ELSE <<>>

_prepare_wall(e, wall) ==
    LET h_start == hash_vector(doc[wall].Start)
        h_end == hash_vector(doc[wall].End)
    IN [e EXCEPT
          !.walls = Append(@, [wall |-> wall, start |-> doc[wall].Start,
                               end |-> doc[wall].End]),
          !.walls_by_start = Put(@, h_start, Append(Bucket(@, h_start), wall)),
          !.walls_by_end = Put(@, h_end, Append(Bucket(@, h_end), wall))]

\* The body of _prepare_obj_for_export on obj itself: the exporter of its
\* IfcType, _not_handled for another IfcType, _prepare_furniture for a mesh
\* without IfcType.
_prepare(e, obj) ==
    LET t == doc[obj].IfcType
    IN CASE t = "Site" -> [e EXCEPT !.site = obj]
         [] t = "Building Storey" -> [e EXCEPT !.levels = Append(@, obj)]
         [] t = "Space" -> [e EXCEPT !.rooms = Append(@, obj)]
         [] t = "Wall" -> _prepare_wall(e, obj)
         [] t = "Plate" -> [e EXCEPT !.plates = Append(@, obj)]
         [] t \in {"Window", "Door", "Opening Element"} ->
                [e EXCEPT !.door_or_windows = Append(@, obj)]
         [] t = NoType /\ doc[obj].TypeId = "Mesh::Feature" ->
                [e EXCEPT !.furnitures = Append(@, obj), !.models = Append(@, obj)]
         [] OTHER -> e

RECURSIVE PrepareAll(_, _)
PrepareAll(e, order) ==
    IF order = <<>> THEN e ELSE PrepareAll(_prepare(e, Head(order)), Tail(order))

\* A plausible slip: the walls written before the rooms.
ExportSteps_WallsBeforeRooms ==
    <<"_export_properties", "_export_furniture_properties", "_export_environment",
      "_export_compass", "_export_cameras", "_export_levels", "_export_walls",
      "_export_rooms", "_export_door_or_windows", "_export_furnitures">>

\* The calls of export_sh3d after the objects are prepared, in order.
ExportSteps ==
    <<"_export_properties", "_export_furniture_properties", "_export_environment",
      "_export_compass", "_export_cameras", "_export_levels", "_export_rooms",
      "_export_walls", "_export_door_or_windows", "_export_furnitures">>

StepNo(step) == CHOOSE k \in 1..Len(ExportSteps) : ExportSteps[k] = step

\* A child of <home>: its tag and the object it is written from.
Elm(tag, obj) == [tag |-> tag, obj |-> obj]

Repeated(tag, n) == [i \in 1..n |-> Elm(tag, NoObj)]

\* App.ActiveDocument.getObject(obj.ReferenceFloorName) is an object.
HasFloor(obj) == doc[obj].floor # NoObj

\* The objects of a list before the first one without floor, on which the
\* export raises.
RECURSIVE BeforeRaise(_)
BeforeRaise(objects) ==
    IF objects = <<>> \/ ~HasFloor(Head(objects)) THEN <<>>
    ELSE <<Head(objects)>> \o BeforeRaise(Tail(objects))

ElmsOf(tag, objects) == [i \in 1..Len(objects) |-> Elm(tag, objects[i])]

\* list(filter(lambda w: w != wall.Name, names))
OtherThan(names, wall) == SelectSeq(names, LAMBDA w : w # wall)

\* The first name of a list, NoObj (no attribute is written) for an empty one.
FirstOf(names) == IF Len(names) > 0 THEN names[1] ELSE NoObj

\* The <wall> _export_wall writes, with the two sibling attributes.
_export_wall(e, t_wall) ==
    LET h_start == hash_vector(t_wall.start)
        h_end == hash_vector(t_wall.end)
    IN [tag |-> "wall", obj |-> t_wall.wall,
        wallAtStart |->
            IF Len(Bucket(e.walls_by_end, h_start)) > 0
            THEN Bucket(e.walls_by_end, h_start)[1]
            ELSE FirstOf(OtherThan(Bucket(e.walls_by_start, h_start), t_wall.wall)),
        wallAtEnd |->
            IF Len(Bucket(e.walls_by_start, h_end)) > 0
            THEN Bucket(e.walls_by_start, h_end)[1]
            ELSE FirstOf(OtherThan(Bucket(e.walls_by_end, h_end), t_wall.wall))]

\* The step raises: _export_environment without a prepared site, a room, an
\* opening or a piece of furniture whose floor is not in the document.
StepRaises(e, step) ==
    CASE step = "_export_environment" -> e.site = NoObj
      [] step = "_export_rooms" -> BeforeRaise(e.rooms) # e.rooms
      [] step = "_export_door_or_windows" -> BeforeRaise(e.door_or_windows) # e.door_or_windows
      [] step = "_export_furnitures" -> BeforeRaise(e.furnitures) # e.furnitures
      [] OTHER -> FALSE

\* The children the step appends to <home>; _export_door_or_window builds
\* the attributes of an opening and appends nothing.
StepElements(e, step) ==
    CASE step = "_export_properties" -> Repeated("property", 11)
      [] step = "_export_furniture_properties" -> Repeated("furnitureVisibleProperty", 5)
      [] step = "_export_environment" ->
             IF e.site = NoObj THEN <<>> ELSE <<Elm("environment", e.site)>>
      [] step = "_export_compass" -> Repeated("compass", 1)
      [] step = "_export_cameras" -> <<Elm("observerCamera", NoObj), Elm("camera", NoObj)>>
      [] step = "_export_levels" -> ElmsOf("level", e.levels)
      [] step = "_export_rooms" -> ElmsOf("room", BeforeRaise(e.rooms))
      [] step = "_export_walls" ->
             [i \in 1..Len(e.walls) |-> _export_wall(e, e.walls[i])]
      [] step = "_export_door_or_windows" -> <<>>
      [] step = "_export_furnitures" -> ElmsOf("pieceOfFurniture", BeforeRaise(e.furnitures))

\* export_sh3d up to the loop over export_list.
BeginExport ==
    /\ xpc = "start"
    /\ xpc' = IF export_list = <<>> THEN ExportSteps[1] ELSE "prepare"
    /\ xidx' = 1
    /\ exporter' = [exporter EXCEPT !.home = <<>>]
    /\ UNCHANGED <<doc, export_list, importer, call>>

\* _prepare_obj_for_export on the xidx-th object of export_list.
Prepare ==
    /\ xpc = "prepare"
    /\ xidx <= Len(export_list)
    /\ exporter' = PrepareAll(exporter, PrepareOrder(export_list[xidx]))
    /\ xidx' = xidx + 1
    /\ xpc' = IF xidx = Len(export_list) THEN ExportSteps[1] ELSE "prepare"
    /\ UNCHANGED <<doc, export_list, importer, call>>

\* One of the _export_... calls of export_sh3d.
ExportStep ==
    /\ xpc \in {ExportSteps[k] : k \in 1..Len(ExportSteps)}
    /\ exporter' = [exporter EXCEPT !.home = @ \o StepElements(exporter, xpc)]
    /\ xpc' = IF StepRaises(exporter, xpc) THEN "failed"
              ELSE IF StepNo(xpc) = Len(ExportSteps) THEN "archive"
              ELSE ExportSteps[StepNo(xpc) + 1]
    /\ UNCHANGED <<doc, export_list, xidx, importer, call>>

\* The archive: Home.xml; the models are written to a temporary directory
\* only (zip.write is commented out).
WriteArchive ==
    /\ xpc = "archive"
    /\ exporter' = [exporter EXCEPT !.zip = <<"Home.xml">>]
    /\ xpc' = "done"
    /\ UNCHANGED <<doc, export_list, xidx, importer, call>>

\* A point of the x axis, x in hundredths.
XPoint(x) == Vec(Fraction(x, 100), Fraction(0, 1), Fraction(0, 1))

\* The documents: a site with a building with a storey that groups a room,
\* two walls, a mesh and a window hosted by the first wall, and an
\* equipment outside them.  The first wall ends and the second wall starts
\* around x = 500, at a point of the tolerance grid or next to one, or the
\* first wall is shorter than the tolerance; no coordinate is half-way
\* between two points of the grid.
Doc(roomFloor, firstEnd, secondStart) ==
    <<[XObj("Site", "App::FeaturePython") EXCEPT !.Group = <<2>>],
      [XObj("Building", "App::FeaturePython") EXCEPT !.Group = <<3>>],
      [XObj("Building Storey", "App::FeaturePython") EXCEPT !.Group = <<4, 5, 6, 7, 8>>],
      [XObj("Space", "Part::FeaturePython") EXCEPT !.floor = roomFloor],
      [XObj("Wall", "Part::FeaturePython") EXCEPT
          !.Start = XPoint(0), !.End = XPoint(firstEnd), !.floor = 3],
      [XObj("Wall", "Part::FeaturePython") EXCEPT
          !.Start = XPoint(secondStart), !.End = XPoint(100000), !.floor = 3],
      [XObj(NoType, "Mesh::Feature") EXCEPT !.floor = 3, !.model = "mesh.obj"],
      [XObj("Window", "Part::FeaturePython") EXCEPT !.Hosts = <<5>>, !.floor = 3],
      [XObj("Furniture", "Part::FeaturePython") EXCEPT !.floor = 3]>>

Docs ==
    {Doc(roomFloor, firstEnd, secondStart) :
        roomFloor \in {3, NoObj}, firstEnd \in {4, 50000, 50004},
        secondStart \in {50000, 50004, 50006, 50012}}

\* The export lists: up to MaxExportLen different objects in any order.
ExportLists ==
    {l \in UNION {[1..n -> 1..9] : n \in 0..MaxExportLen} :
        \A i \in DOMAIN l : \A j \in DOMAIN l : l[i] = l[j] => i = j}

\* One call of export_sh3d by a new SH3DExporter.
InitExport ==
    /\ NoImport
    /\ call = NoCall
    /\ doc \in Docs
    /\ export_list \in ExportLists
    /\ xpc = "start"
    /\ xidx = 1
    /\ exporter = NewExporter

NextExport ==
    \/ BeginExport
    \/ Prepare
    \/ ExportStep
    \/ WriteArchive

SpecExport == InitExport /\ [][NextExport]_vars

(* ------------------------------- joints -------------------------------- *)
\* The whole number of tenths nearest to a coordinate.
NearestTenth(x) ==
    CHOOSE k \in ((10 * x.n) \div x.d - 1)..((10 * x.n) \div x.d + 2) :
        \A j \in ((10 * x.n) \div x.d - 1)..((10 * x.n) \div x.d + 2) :
            /\ Abs(10 * x.n - k * x.d) <= Abs(10 * x.n - j * x.d)
            /\ Abs(10 * x.n - k * x.d) = Abs(10 * x.n - j * x.d) => (k = j \/ k % 2 = 0)

Quantized(v) == <<NearestTenth(v.x), NearestTenth(v.y), NearestTenth(v.z)>>

\* The two coordinates differ by less than the tolerance 0.1.
Near(x, y) == 10 * Abs(x.n * y.d - y.n * x.d) < x.d * y.d

Close(p, q) == Near(p.x, q.x) /\ Near(p.y, q.y) /\ Near(p.z, q.z)

Recorded(map, point, wall) ==
    \E i \in DOMAIN Bucket(map, hash_vector(point)) :
        Bucket(map, hash_vector(point))[i] = wall

PreparedWalls == {exporter.walls[i] : i \in DOMAIN exporter.walls}

HomeGroups ==
    <<{"property"}, {"furnitureVisibleProperty"}, {"environment"}, {"compass"},
      {"observerCamera", "camera"}, {"level"}, {"room"}, {"wall"}, {"doorOrWindow"},
      {"pieceOfFurniture"}>>

GroupOf(tag) == CHOOSE g \in 1..Len(HomeGroups) : tag \in HomeGroups[g]

Tags(home) == {home[i].tag : i \in DOMAIN home}

\* C20: the children of <home> are written group after group in the fixed
\* order, properties first and furniture last, whatever the order of the
\* export list: no child of an earlier group follows a child of a later one.
C20_HomeChildrenInOrder ==
    \A i \in DOMAIN exporter.home : \A j \in DOMAIN exporter.home :
        i < j => GroupOf(exporter.home[i].tag) <= GroupOf(exporter.home[j].tag)

\* A finished export whose list names the mesh first and the site after it,
\* with levels, rooms, walls and furniture in Home.xml.
C20_Witness ==
    /\ xpc = "done"
    /\ Len(export_list) = 2
    /\ doc[export_list[1]].TypeId = "Mesh::Feature"
    /\ doc[export_list[2]].IfcType = "Site"
    /\ {"property", "environment", "level", "room", "wall", "pieceOfFurniture"}
          \subseteq Tags(exporter.home)

(* ------------------------- the host of an opening ---------------------- *)
\* Archives of walls without siblings and openings on the default floor;
\* the kernel sweeps a wall at once or never.
InitDoor ==
    /\ \E join \in BOOLEAN : prefs = Preferences(FALSE, TRUE, FALSE, FALSE, FALSE, join)
    /\ objs = <<>>
    /\ \E nw \in 1..MaxWalls, nd \in 1..MaxPerKind :
          /\ file = [hasHome |-> TRUE, count |-> [NoCount EXCEPT !["doorOrWindow"] = nd],
                     groups |-> <<>>,
                     walls |-> [k \in 1..nw |-> WallElm(k, None, None, None)]]
          /\ kernel \in [1..nw -> [firstValid : {0, max_adjustment + 2}, bad : {"invalid"}]]
    /\ earlier = <<>>
    /\ call = NoCall
    /\ NoExport
    /\ Constructed

NextDoor ==
    \/ Open
    \/ NextPass
    \/ ProcessWall
    \/ ProcessDoorOrWindow

SpecDoor == InitDoor /\ [][NextDoor]_vars

Openings == {h \in 1..Len(objs) : objs[h].kind = "Window"}

\* The positions in the wall list of the walls whose bounding box holds the
\* placement point of an opening placed at `at` on the default floor.
Holding(at) ==
    {n \in 1..Len(walls) : Inside(objs[walls[n]].box, DoorCenter(objs, default_floor, at))}

FirstHolding(at) ==
    IF Holding(at) = {} THEN NoObj
    ELSE walls[CHOOSE n \in Holding(at) : \A m \in Holding(at) : n <= m]

\* C19: the host of an opening is the first wall of the wall list whose
\* bounding box holds the placement point; when no wall holds it the opening
\* is created without host and with DEFAULT_WALL_WIDTH (100) as wall width.
C19_HostIsFirstHoldingWall ==
    \A h \in Openings : \E at \in DoorPoints :
        /\ objs[h].base = FirstHolding(at)
        /\ objs[h].base # NoObj => objs[h].width = objs[objs[h].base].width
        /\ objs[h].base = NoObj => objs[h].width = DEFAULT_WALL_WIDTH

\* An opening created without host, its wall width being -100.
C19_Witness ==
    \E h \in Openings :
        /\ objs[h].base = NoObj
        /\ walls # <<>>
        /\ objs[h].width = 0 - DEFAULT_WALL_WIDTH

(* ------------------------------ the archive ---------------------------- *)
\* Model.archive_name of the model of a piece of furniture.
archive_name(furniture) == doc[furniture].model

Entries == {exporter.zip[i] : i \in DOMAIN exporter.zip}

ExportedFurniture ==
    {exporter.home[i].obj : i \in {j \in DOMAIN exporter.home :
                                      exporter.home[j].tag = "pieceOfFurniture"}}

\* C21: after a successful export the archive holds Home.xml and one entry
\* for the mesh of each exported piece of furniture, named by its model
\* attribute, each name once.
C21_ArchiveHoldsModels ==
    xpc = "done" =>
        /\ "Home.xml" \in Entries
        /\ \A furniture \in ExportedFurniture : archive_name(furniture) \in Entries
        /\ \A i \in DOMAIN exporter.zip : \A j \in DOMAIN exporter.zip :
              exporter.zip[i] = exporter.zip[j] => i = j

\* A successful export of a piece of furniture whose archive holds Home.xml
\* and nothing else.
C21_Witness ==
    /\ xpc = "done"
    /\ ExportedFurniture # {}
    /\ Entries = {"Home.xml"}

(* ------------------------------ the level pass ------------------------- *)
\* The <level> elements LevelHandler.process handled without error.
ProcessedLevels ==
    {k \in 1..NumElems("level") :
        \E n \in DOMAIN log : log[n] = [tag |-> "level", i |-> k - 1, ok |-> TRUE]}

\* C22: after the level pass the floors are those of the <level> elements
\* processed without error, each under the id of its element; the default
\* floor (id 'Level', elevation 0) exists exactly when the archive declares
\* no <level>, and is then the only floor and the floor of every element,
\* whatever its level attribute.
C22_FloorsAfterLevelPass ==
    AfterLevels =>
        /\ default_floor # NoObj <=> file.count["level"] = 0
        /\ file.count["level"] # 0 =>
              /\ DOMAIN floors = {LevelElm(k).id : k \in ProcessedLevels}
              /\ \A k \in ProcessedLevels :
                    /\ objs[floors[LevelElm(k).id]].id = LevelElm(k).id
                    /\ objs[floors[LevelElm(k).id]].kind = "Floor"
              /\ \A k1 \in ProcessedLevels : \A k2 \in ProcessedLevels :
                    floors[LevelElm(k1).id] = floors[LevelElm(k2).id] => k1 = k2
        /\ file.count["level"] = 0 =>
              /\ DOMAIN floors = {Id("Level", 0)}
              /\ floors[Id("Level", 0)] = default_floor
              /\ objs[default_floor].id = Id("Level", 0)
              /\ objs[default_floor].z = 0
              /\ \A level_id \in LevelRefs : get_floor(level_id) = default_floor

\* An archive without <level> whose wall is about to be handed: the default
\* floor is the floor it gets, whatever level it names.
C22_Witness ==
    /\ pc = "wall"
    /\ idx <= NumElems("wall")
    /\ file.count["level"] = 0
    /\ default_floor # NoObj
    /\ get_floor(UnknownLevel) = default_floor

(* ------------------------------ curved walls --------------------------- *)
\* Half the chord of the curved walls drawn here is a multiple of 500, up to
\* MaxHalfChord times.
MaxHalfChord == 2

\* The eight directions a chord takes here.
Directions ==
    {d \in [x : {0 - 1, 0, 1}, y : {0 - 1, 0, 1}] : d.x # 0 \/ d.y # 0}

\* The z component of u x v.
CrossZ(u, v) == u.x * v.y - u.y * v.x

\* math.degrees(DraftVecUtils.angle(X_NORM, v, Z_NORM)): the signed angle of
\* v, in ]-180, 180], for a vector along one of the eight directions.
AngleFromX(v) ==
    CASE v.y = 0 /\ v.x > 0 -> 0
      [] v.y = 0 /\ v.x < 0 -> 180
      [] v.x = 0 /\ v.y > 0 -> 90
      [] v.x = 0 /\ v.y < 0 -> 0 - 90
      [] v.x > 0 /\ v.y > 0 -> 45
      [] v.x < 0 /\ v.y > 0 -> 135
      [] v.x < 0 /\ v.y < 0 -> 0 - 135
      [] OTHER -> 0 - 45

\* DraftGeomUtils.circleFrom2PointsRadius(start, end, radius) for an arc of a
\* quarter turn: the two centres lie on the bisector of the chord, half a
\* chord away from it, one on each side; `first` tells which side the
\* library lists first (1: the side of (end - start) x Z).
circleFrom2PointsRadius(start, end, first) ==
    LET hx == (end.x - start.x) \div 2
        hy == (end.y - start.y) \div 2
        side(sign) == Vec(start.x + hx + sign * hy, start.y + hy - sign * hx, start.z)
    IN IF first = 1 THEN <<side(1), side(0 - 1)>> ELSE <<side(0 - 1), side(1)>>

\* _get_normal_angles of a curved wall; the arc extent is a quarter turn,
\* written in degrees, and the radius is kept as its square.
CurvedNormalAngles(wall_details, first) ==
    LET start == wall_details.start
        end == wall_details.end
        circles == circleFrom2PointsRadius(start, end, first)
        from(c, p) == Vec(p.x - c.x, p.y - c.y, 0)
        invert_angle == Sign(wall_details.arc_extent)
                           # Sign(CrossZ(from(circles[1], start), from(circles[1], end)))
        center == IF invert_angle THEN circles[2] ELSE circles[1]
        radius1 == from(center, start)
        radius2 == from(center, end)
    IN [angle_start |-> AngleFromX(radius1), angle_end |-> AngleFromX(radius2),
        invert_angle |-> invert_angle, center |-> center,
        radiusSq |-> radius1.x * radius1.x + radius1.y * radius1.y]

\* Draft.makeCircle(radius, placement, False, startangle, endangle): the arc
\* drawn counter-clockwise from startangle to endangle.
makeCircle(radiusSq, center, startangle, endangle) ==
    [radiusSq |-> radiusSq, center |-> center, startangle |-> startangle,
     endangle |-> endangle]

\* A plausible slip: the arc always runs from the angle of the start point.
CurvedSpine_StartFirst(n) ==
    makeCircle(n.radiusSq, n.center, n.angle_start, n.angle_end)

\* The spine of _create_curved_segment.
CurvedSpine(n) ==
    IF n.invert_angle
    THEN makeCircle(n.radiusSq, n.center, n.angle_start, n.angle_end)
    ELSE makeCircle(n.radiusSq, n.center, n.angle_end, n.angle_start)

\* _get_section of a curved wall without sibling: the section stands at the
\* endpoint, turned by the normal angle of that endpoint.
CurvedSection(wall_details, at_start, n) ==
    [joined |-> FALSE,
     p1 |-> IF at_start THEN wall_details.start ELSE wall_details.end,
     p2 |-> IF at_start THEN wall_details.start ELSE wall_details.end,
     height |-> IF at_start THEN wall_details.height_start ELSE wall_details.height_end,
     thickness |-> wall_details.thickness,
     z_rotation |-> IF at_start THEN n.angle_start ELSE n.angle_end]

_create_curved_segment(wall_details, first) ==
    LET n == CurvedNormalAngles(wall_details, first)
    IN [section_start |-> CurvedSection(wall_details, TRUE, n),
        section_end |-> CurvedSection(wall_details, FALSE, n),
        spine |-> CurvedSpine(n),
        angles |-> n]

Call__create_curved_segment ==
    /\ Called("_create_curved_segment")
    /\ Return(_create_curved_segment(call.arg.wall_details, call.arg.first))
    /\ UNCHANGED <<importer, exporting>>

\* Curved walls of a quarter turn, to either side, along the eight directions.
CurvedWalls ==
    {[start |-> start,
      end |-> Vec(start.x + 1000 * h * d.x, start.y + 1000 * h * d.y, start.z),
      thickness |-> 100, height_start |-> 2500, height_end |-> 2500,
      arc_extent |-> arc] :
        start \in {ORIGIN, Vec(3000, 0 - 2000, 0)}, h \in 1..MaxHalfChord,
        d \in Directions, arc \in {90, 0 - 90}}

InitArc ==
    /\ NoImport
    /\ NoExport
    /\ \E wall_details \in CurvedWalls, first \in {1, 2} :
          call = [fn |-> "_create_curved_segment",
                  arg |-> [wall_details |-> wall_details, first |-> first],
                  res |-> 0, done |-> FALSE]

NextArc == Call__create_curved_segment

SpecArc == InitArc /\ [][NextArc]_vars

\* The curved segments made.
CurvedDone == call.fn = "_create_curved_segment" /\ call.done

\* C23 as stated: the arc runs from the angle of the start point to the
\* angle of the end point, the two swapped exactly when the second centre
\* was chosen.
C23_SwappedWhenInverted ==
    CurvedDone =>
        LET n == call.res.angles
            spine == call.res.spine
        IN IF n.invert_angle
           THEN spine.startangle = n.angle_end /\ spine.endangle = n.angle_start
           ELSE spine.startangle = n.angle_start /\ spine.endangle = n.angle_end

\* C23: the two bounding angles of the spine arc of a curved wall are the
\* radius-vector angles of its two endpoints about the chosen centre, which
\* sees the wall turn from start to end in the sense of the arc extent; the
\* arc runs from the angle of the end point to the angle of the start point,
\* and from start to end exactly when the second candidate centre was chosen.
C23_StartFirstWhenInverted ==
    CurvedDone =>
        LET n == call.res.angles
            spine == call.res.spine
            wall_details == call.arg.wall_details
            circles == circleFrom2PointsRadius(wall_details.start, wall_details.end,
                                               call.arg.first)
            r1 == Vec(wall_details.start.x - n.center.x,
                      wall_details.start.y - n.center.y, 0)
            r2 == Vec(wall_details.end.x - n.center.x,
                      wall_details.end.y - n.center.y, 0)
        IN /\ n.invert_angle <=> n.center = circles[2]
           /\ n.angle_start = AngleFromX(r1) /\ n.angle_end = AngleFromX(r2)
           /\ Sign(CrossZ(r1, r2)) = Sign(wall_details.arc_extent)
           /\ spine.center = n.center
           /\ IF n.invert_angle
              THEN spine.startangle = n.angle_start /\ spine.endangle = n.angle_end
              ELSE spine.startangle = n.angle_end /\ spine.endangle = n.angle_start

\* A curved wall whose first candidate centre was kept: the arc runs from
\* the angle of its end point to the angle of its start point.
C23_Witness ==
    /\ CurvedDone
    /\ ~call.res.angles.invert_angle
    /\ call.res.angles.angle_start # call.res.angles.angle_end
    /\ call.res.spine.startangle = call.res.angles.angle_end
    /\ call.res.spine.endangle = call.res.angles.angle_start

(* ------------------------- sections of parallel walls ------------------ *)
\* The two offset edges of the wall of a descriptor.
SidesOf(d) == _get_sides(d.start, d.end, d.thickness)

\* The corner a section takes from an offset edge that does not meet the
\* edge of the sibling, as the sentence has it: the vertex of the edge at the
\* endpoint being built.
OwnCorner(edge, attr) == IF attr = "wallAtStart" THEN edge.a ELSE edge.b

\* The joined sections built with a sibling: the wall and the end.
JoinedEnds ==
    {ka \in CreatedWalls \X SiblingAttributes :
        prefs.JOIN_ARCH_WALL /\ UsedSiblingDetails(ka[1], ka[2]) # NoDetails}

\* C24: in a joined section, a corner whose two offset edges (of the wall
\* and of its sibling) do not intersect is the vertex of the wall's own
\* offset edge at the endpoint being built: the start vertex in the start
\* section, the end vertex in the end section.
C24_FallbackToOwnEndpoint ==
    \A ka \in JoinedEnds :
        LET sides == SidesOf(wallRes[ka[1]].details)
            s_sides == SidesOf(UsedSiblingDetails(ka[1], ka[2]))
            section == UsedSection(ka[1], ka[2])
        IN /\ findIntersection(sides.lside, s_sides.lside) = <<>> =>
                 section.p1 = OwnCorner(sides.lside, ka[2])
           /\ findIntersection(sides.rside, s_sides.rside) = <<>> =>
                 section.p2 = OwnCorner(sides.rside, ka[2])

\* The part that holds: the start vertex, in the start section.
StartSectionFallsBack ==
    \A ka \in JoinedEnds :
        LET sides == SidesOf(wallRes[ka[1]].details)
            s_sides == SidesOf(UsedSiblingDetails(ka[1], ka[2]))
            section == UsedSection(ka[1], ka[2])
        IN ka[2] = "wallAtStart" =>
              /\ findIntersection(sides.lside, s_sides.lside) = <<>> =>
                    section.p1 = sides.lside.a
              /\ findIntersection(sides.rside, s_sides.rside) = <<>> =>
                    section.p2 = sides.rside.a

\* A wall whose end section, joined with a collinear wall at its end, stands
\* on the start vertices of its offset edges.
C24_Witness ==
    \E ka \in JoinedEnds :
        /\ ka[2] = "wallAtEnd"
        /\ findIntersection(SidesOf(wallRes[ka[1]].details).lside,
                            SidesOf(UsedSiblingDetails(ka[1], ka[2])).lside) = <<>>
        /\ UsedSection(ka[1], ka[2]).p1 = SidesOf(wallRes[ka[1]].details).lside.a
        /\ UsedSection(ka[1], ka[2]).p1 # SidesOf(wallRes[ka[1]].details).lside.b
        /\ UsedSiblingDetails(ka[1], ka[2]) # wallRes[ka[1]].details

(* --------------------------- boolean attributes ------------------------ *)
\* An xml element is the function from the names of its attributes to their
\* values; elm.get(name, default) is then:
Get(elm, name, default) == IF name \in DOMAIN elm THEN elm[name] ELSE default

\* Python's bool() of a string: every string but the empty one is true.
bool(string) == string # ""

\* SH3DImporter.set_property with an element as value, for a property of
\* type App::PropertyBool: bool(value.get(name, True)).
set_property(elm, name) ==
    IF name \in DOMAIN elm THEN bool(elm[name]) ELSE TRUE

\* The property of a furniture set from bool(elm.get(name, False)).
FromBool(elm, name) ==
    IF name \in DOMAIN elm THEN bool(elm[name]) ELSE FALSE

\* The boolean properties set_furniture_common_properties stores.
set_furniture_common_properties(elm) ==
    [visible |-> set_property(elm, "visible"),
     movable |-> set_property(elm, "movable"),
     modelMirrored |-> FromBool(elm, "modelMirrored"),
     nameVisible |-> FromBool(elm, "nameVisible")]

\* The boolean properties RoomHandler sets from the element.
RoomProperties(elm) ==
    [areaVisible |-> set_property(elm, "areaVisible"),
     floorVisible |-> set_property(elm, "floorVisible"),
     ceilingVisible |-> set_property(elm, "ceilingVisible"),
     ceilingFlat |-> set_property(elm, "ceilingFlat")]

\* SH3DCommons.set_fc_property for App::PropertyBool; default_value is "None",
\* "True" or "False".
set_fc_property(elm, name, default_value) ==
    Get(elm, name, IF default_value = "None" THEN "true"
                   ELSE IF default_value = "True" THEN "true" ELSE "false") = "true"

Call_set_furniture_common_properties ==
    /\ Called("set_furniture_common_properties")
    /\ Return(set_furniture_common_properties(call.arg))
    /\ UNCHANGED <<importer, exporting>>

Call_RoomProperties ==
    /\ Called("RoomHandler._set_properties")
    /\ Return(RoomProperties(call.arg))
    /\ UNCHANGED <<importer, exporting>>

Call_set_fc_property ==
    /\ Called("set_fc_property")
    /\ Return([floorVisible |->
                  set_fc_property(call.arg.elm, "floorVisible", call.arg.default_value)])
    /\ UNCHANGED <<importer, exporting>>

\* The values a boolean attribute takes in an archive.
BoolStrings == {"true", "false", ""}

\* The elements with some of the attributes `names`.
ElementsOver(names) ==
    UNION {[present -> BoolStrings] : present \in SUBSET names}

InitBool ==
    /\ NoImport
    /\ NoExport
    /\ \/ \E elm \in ElementsOver({"visible", "movable", "modelMirrored", "nameVisible"}) :
             call = [fn |-> "set_furniture_common_properties", arg |-> elm,
                     res |-> 0, done |-> FALSE]
       \/ \E elm \in ElementsOver({"areaVisible", "floorVisible", "ceilingVisible",
                                   "ceilingFlat"}) :
             call = [fn |-> "RoomHandler._set_properties", arg |-> elm,
                     res |-> 0, done |-> FALSE]
       \/ \E elm \in ElementsOver({"floorVisible"}),
             default_value \in {"None", "True", "False"} :
             call = [fn |-> "set_fc_property",
                     arg |-> [elm |-> elm, default_value |-> default_value],
                     res |-> 0, done |-> FALSE]

NextBool ==
    \/ Call_set_furniture_common_properties
    \/ Call_RoomProperties
    \/ Call_set_fc_property

SpecBool == InitBool /\ [][NextBool]_vars

\* The element of a finished call that read boolean attributes.
ReadElm == IF call.fn = "set_fc_property" THEN call.arg.elm ELSE call.arg

\* C25: a boolean attribute of an imported element is stored as true when
\* its value is "true" and as false when it is "false"; the default is used
\* only for an absent attribute.
C25_BoolFromString ==
    call.done =>
        \A name \in DOMAIN call.res :
            /\ (name \in DOMAIN ReadElm /\ ReadElm[name] = "true") => call.res[name]
            /\ (name \in DOMAIN ReadElm /\ ReadElm[name] = "false") => ~call.res[name]

\* What the code does instead: a present attribute is stored as true unless
\* its value is the empty string.
BoolFromPresence ==
    (call.done /\ call.fn # "set_fc_property") =>
        \A name \in DOMAIN call.res :
            name \in DOMAIN ReadElm => (call.res[name] <=> ReadElm[name] # "")

\* SH3DCommons.set_fc_property, which the importer does not call, reads the
\* string.
CommonsBoolFromString ==
    (call.done /\ call.fn = "set_fc_property") =>
        (("floorVisible" \in DOMAIN ReadElm) =>
            (call.res.floorVisible <=> ReadElm["floorVisible"] = "true"))

\* A room whose floorVisible attribute is "false", stored as true.
C25_Witness ==
    /\ call.done
    /\ call.fn = "RoomHandler._set_properties"
    /\ "floorVisible" \in DOMAIN call.arg
    /\ call.arg["floorVisible"] = "false"
    /\ call.res.floorVisible

(* ------------------------- siblings of exported walls ------------------ *)
\* The <wall> elements written so far.
WallElements ==
    {exporter.home[i] : i \in {j \in DOMAIN exporter.home : exporter.home[j].tag = "wall"}}

\* The first wall of the recorded walls that satisfies P, NoObj without one.
FirstRecorded(P(_)) ==
    LET found == {i \in DOMAIN exporter.walls : P(exporter.walls[i])}
    IN IF found = {} THEN NoObj
       ELSE exporter.walls[CHOOSE i \in found : \A j \in found : i <= j].wall

StartsAt(point, t_wall) == hash_vector(t_wall.start) = hash_vector(point)

EndsAt(point, t_wall) == hash_vector(t_wall.end) = hash_vector(point)

\* The sibling the sentence gives a wall at `point`: the first recorded wall
\* with the one endpoint there, or else the first other wall with its
\* other endpoint there.
SiblingAt(wall, point, Meets(_, _), MeetsElse(_, _)) ==
    IF FirstRecorded(LAMBDA t : Meets(point, t)) # NoObj
    THEN FirstRecorded(LAMBDA t : Meets(point, t))
    ELSE FirstRecorded(LAMBDA t : t.wall # wall /\ MeetsElse(point, t))

\* The sides of C26 without the last one.
SiblingsAsRecorded ==
    \A elm \in WallElements :
        /\ elm.wallAtStart = SiblingAt(elm.obj, doc[elm.obj].Start, EndsAt, StartsAt)
        /\ elm.wallAtEnd = SiblingAt(elm.obj, doc[elm.obj].End, StartsAt, EndsAt)

\* C26: wallAtStart of an exported wall is the first recorded wall that ends
\* at its start point, or else the first other wall that starts there;
\* wallAtEnd is the first recorded wall that starts at its end point, or
\* else the first other wall that ends there; and a wall never names itself.
C26_SiblingsOfExportedWall ==
    /\ SiblingsAsRecorded
    /\ \A elm \in WallElements :
          elm.wallAtStart # elm.obj /\ elm.wallAtEnd # elm.obj

\* Walls whose two endpoints have different keys never name themselves.
LongWallsNameOthers ==
    \A elm \in WallElements :
        hash_vector(doc[elm.obj].Start) # hash_vector(doc[elm.obj].End) =>
            elm.wallAtStart # elm.obj /\ elm.wallAtEnd # elm.obj

\* An exported wall that names itself as its wallAtStart.
C26_Witness ==
    \E elm \in WallElements : elm.wallAtStart = elm.obj

(* ------------------------------ the counters --------------------------- *)
\* A furnitureGroup holds up to MaxGroupSize pieces of furniture.
MaxGroupSize == 2

\* Archives of furniture only: pieces under <home> and in up to two
\* furnitureGroup elements.
InitCount ==
    /\ prefs = Preferences(FALSE, FALSE, TRUE, FALSE, FALSE, TRUE)
    /\ \E n \in 0..MaxPerKind,
          groups \in UNION {[1..g -> 0..MaxGroupSize] : g \in 0..2} :
          file = [hasHome |-> TRUE,
                  count |-> [NoCount EXCEPT !["pieceOfFurniture"] = n],
                  groups |-> groups, walls |-> <<>>]
    /\ kernel = <<>>
    /\ objs = <<>>
    /\ earlier = <<>>
    /\ call = NoCall
    /\ NoExport
    /\ Constructed

NextCount ==
    \/ Open
    \/ NextPass
    \/ ProcessFurniture

SpecCount == InitCount /\ [][NextCount]_vars

\* C27: the processed count never exceeds the expected total computed at the
\* start of the import, and equals it when the import is finished, also for
\* archives with furniture inside furnitureGroup elements.
C27_ProcessedWithinTotal ==
    /\ pc # "start" => current_object_count <= total_object_count
    /\ pc = "done" => current_object_count = total_object_count

\* The same for archives without furnitureGroup.
CountWithoutGroups ==
    file.groups = <<>> => C27_ProcessedWithinTotal

\* What the two counters are at the end: every furnitureGroup counts for one
\* in the total, every piece in it for one in the processed count.
CountAtEnd ==
    (pc = "done" /\ prefs.IMPORT_FURNITURES) =>
        current_object_count - total_object_count = SumSeq(file.groups) - Len(file.groups)

\* A finished import of a furnitureGroup of two pieces: more elements
\* processed than expected.
C27_Witness ==
    /\ pc = "done"
    /\ file.groups = <<MaxGroupSize>>
    /\ current_object_count > total_object_count

(* --------------------------- one element per object -------------------- *)
\* The positions of <home> where an element written from an object stands.
ObjectElements ==
    {i \in DOMAIN exporter.home :
        exporter.home[i].tag \in {"level", "room", "wall", "pieceOfFurniture"}}

Reached(obj) ==
    LET order == Joined([n \in 1..Len(export_list) |-> PrepareOrder(export_list[n])])
    IN Cardinality({n \in DOMAIN order : order[n] = obj})

\* What holds instead: an object is written as often as it is reached.
WrittenAsOftenAsReached ==
    xpc = "done" =>
        \A obj \in DOMAIN doc :
            Cardinality({i \in ObjectElements : exporter.home[i].obj = obj})
                \in {0, Reached(obj)}

Value(type, num, flag, text) == [type |-> type, num |-> num, flag |-> flag, text |-> text]

NoneValue == Value("none", 0, FALSE, "")

Float(n) == Value("float", n, FALSE, "")

Boolean(b) == Value("bool", 0, b, "")

Str(text) == Value("str", 0, FALSE, text)

\* The truth value Python gives a value in `if value` and `not value`.
Truthy(value) ==
    CASE value.type = "none" -> FALSE
      [] value.type = "float" -> value.num # 0
      [] value.type = "bool" -> value.flag
      [] OTHER -> value.text # ""

\* str(value)
str(value) ==
    CASE value.type = "float" -> Value("str", value.num, FALSE, "float")
      [] value.type = "bool" -> Str(IF value.flag THEN "True" ELSE "False")
      [] value.type = "none" -> Str("None")
      [] OTHER -> value

\* The property of an object that is not in its PropertiesList.
NoProperty == [type |-> "none", value |-> NoneValue]

\* set_sh_attribute(attributes, obj, property, value) on an empty attribute
\* map: the entry of `property` as a sequence, empty when none is written;
\* stored is the property of that name on the object.
set_sh_attribute(stored, value) ==
    LET preferred == IF ~Truthy(value) /\ stored.type # "none" THEN stored.value ELSE value
        converted == IF stored.type = "App::PropertyBool"
                     THEN Str(IF Truthy(preferred) THEN "true" ELSE "false")
                     ELSE preferred
    IN IF Truthy(converted) THEN <<str(converted)>> ELSE <<>>

Call_set_sh_attribute ==
    /\ Called("set_sh_attribute")
    /\ Return(set_sh_attribute(call.arg.stored, call.arg.value))
    /\ UNCHANGED <<importer, exporting>>

\* The values the exporter computes for x, y and elevation, and the ones an
\* object stores under these names.
Computed == {0 - 250, 0, 250, 1200}

FloatProperties == {"x", "y", "elevation"}

BoolProperties == {"floorVisible", "ceilingVisible"}

\* The calls of the exporter with a preferred value or without one: a
\* float for x, y and elevation of a piece of furniture, the visibility of
\* the panel for floorVisible and ceilingVisible of a room.
InitAttribute ==
    /\ NoImport
    /\ NoExport
    /\ \/ \E property \in FloatProperties,
             stored \in {NoProperty} \cup
                        {[type |-> "App::PropertyFloat", value |-> Float(n)] : n \in Computed},
             value \in {NoneValue} \cup {Float(n) : n \in Computed} :
             call = [fn |-> "set_sh_attribute",
                     arg |-> [property |-> property, stored |-> stored, value |-> value],
                     res |-> 0, done |-> FALSE]
       \/ \E property \in BoolProperties,
             stored \in {NoProperty} \cup
                        {[type |-> "App::PropertyBool", value |-> Boolean(b)] : b \in BOOLEAN},
             value \in {NoneValue} \cup {Boolean(b) : b \in BOOLEAN} :
             call = [fn |-> "set_sh_attribute",
                     arg |-> [property |-> property, stored |-> stored, value |-> value],
                     res |-> 0, done |-> FALSE]

NextAttribute == Call_set_sh_attribute

SpecAttribute == InitAttribute /\ [][NextAttribute]_vars

\* The text the attribute has when the preferred value is written.
Written(stored, value) ==
    IF stored.type = "App::PropertyBool"
    THEN Str(IF value.flag THEN "true" ELSE "false")
    ELSE str(value)

\* The calls with an explicit preferred value that have returned.
PreferredGiven ==
    call.fn = "set_sh_attribute" /\ call.done /\ call.arg.value.type # "none"

\* C29: after set_sh_attribute with an explicit preferred value the
\* attribute map holds that value under the name of the property; so x, y
\* and elevation are written also when they are 0, and an explicit false is
\* not replaced by the value the object stores.
C29_PreferredValueWritten ==
    PreferredGiven =>
        call.res = <<Written(call.arg.stored, call.arg.value)>>

\* What holds: a preferred value that Python takes as true is written.
TruthyPreferredWritten ==
    (PreferredGiven /\ Truthy(call.arg.value)) =>
        call.res = <<Written(call.arg.stored, call.arg.value)>>

\* x = 0 is computed for a piece of furniture that stores no x, and no x
\* attribute is written.
C29_Witness ==
    /\ PreferredGiven
    /\ call.arg.property = "x"
    /\ call.arg.stored = NoProperty
    /\ call.arg.value = Float(0)
    /\ call.res = <<>>

\* The panel of the floor is hidden, the room stores floorVisible = true, and
\* "true" is written.
FalseReplacedByStored ==
    /\ PreferredGiven
    /\ call.arg.property = "floorVisible"
    /\ call.arg.value = Boolean(FALSE)
    /\ call.arg.stored.value = Boolean(TRUE)
    /\ call.res = <<Str("true")>>

(* ------------------------------ the wall list -------------------------- *)
\* The <wall> elements whose call of WallHandler.process ended by an error.
FailedWalls ==
    {k \in ProcessedWalls :
        \E n \in DOMAIN log : log[n] = [tag |-> "wall", i |-> k - 1, ok |-> FALSE]}

\* The entry of the wall list is the wall of a <wall> element that was
\* created or merged and stands on the floor of that element.
ListedFromElement(n) ==
    \E k \in ProcessedWalls :
        /\ wallRes[k].wall = walls[n]
        /\ wallRes[k].status \in {"created", "merged"}
        /\ wallRes[k].floor # NoObj
        /\ objs[walls[n]].parent = wallRes[k].floor

\* The wall of the entry has a shape.
ListedWithShape(n) ==
    \A k \in ProcessedWalls :
        (wallRes[k].wall = walls[n] /\ wallRes[k].status = "created") =>
            wallRes[k].shape = "valid"

\* The parts of C30 that hold whatever the kernel and the baseboards do.
WallListFromElements ==
    /\ \A n \in DOMAIN walls : ListedFromElement(n)
    /\ Len(walls) <= Cardinality(ProcessedWalls)
    /\ \A n \in DOMAIN walls : \A m \in DOMAIN walls : walls[n] = walls[m] => n = m

\* C30: every wall of the wall list was created or merged successfully and
\* is attached to the floor resolved for its element; no object of a <wall>
\* element whose processing failed is in the list; the list holds at most
\* one entry for each <wall> element processed.
C30_WallListHoldsBuiltWalls ==
    /\ WallListFromElements
    /\ \A n \in DOMAIN walls : ListedWithShape(n)
    /\ \A k \in FailedWalls : \A h \in ObjectsOfWall(k) : ~InWallList(h)

\* A <wall> whose sweep came out null: its processing ended without error
\* and its shapeless wall is in the list the openings scan for a host.
C30_Witness ==
    \E n \in DOMAIN walls : \E k \in ProcessedWalls \ FailedWalls :
        /\ wallRes[k].wall = walls[n]
        /\ wallRes[k].shape = "null"
        /\ objs[walls[n]].box = NoBox

\* A <wall> whose processing ended by an error (its baseboard is invalid)
\* and whose wall is in the wall list.
FailedWallListed ==
    \E k \in FailedWalls :
        /\ wallRes[k].status = "created"
        /\ InWallList(wallRes[k].wall)

====
